---- MODULE Spec2Model ----
(***************************************************************************)
(* The match session engine of the 3D Battleship server (src/server.js):   *)
(* the room registry, ship-placement validation, attack resolution, chat   *)
(* log and disconnect handling, as one state machine.  Every socket.io     *)
(* handler is one action; Node runs each handler to completion, so an      *)
(* action is the whole handler.                                            *)
(*                                                                         *)
(* For every handler X the module defines XError (the error it replies,    *)
(* "none" when the request is accepted), XRooms (the registry after the    *)
(* handler) and XEvents (its broadcasts, in order).  A rejected request    *)
(* leaves every variable as it was; what it replies is XError.             *)
(*                                                                         *)
(* The program plays on a 5x5x5 board with a catalog of five ships.  The   *)
(* model keeps the code of every handler and scales the board edge and the *)
(* catalog down (BOARD_SIZE, SHIPS below) so that whole matches, from      *)
(* placement to the winning shot and beyond, are explored exhaustively.    *)
(*                                                                         *)
(* Three specifications share the actions: Spec is the match engine        *)
(* (createGame, joinGame, placeShips, attack, disconnecting), SpecLobby    *)
(* the lobby (createGame, joinGame, setUsername, chatMessage,              *)
(* disconnecting; these two handlers write usernames and the chat log      *)
(* only), SpecValidate the validation of placeShips over submissions of    *)
(* every shape.                                                            *)
(***************************************************************************)
EXTENDS Integers, Sequences, FiniteSets, TLC

VARIABLES
    rooms,        \* the registry: room code -> room (server.js:24)
    socketRooms,  \* socket.rooms: the room codes each socket has joined
    connected,    \* the sockets that are connected (not yet disconnected)
    hist,         \* history per live room: creator, winner declared, last attacker
    generating,   \* the createGame call inside generateRoomCode's loop, or null
    auto          \* the client's generateAutomaticPlacements call in progress

vars == <<rooms, socketRooms, connected, hist, generating, auto>>

(***************************************************************************)
(* Constants of the program and bounds of the model                        *)
(***************************************************************************)

\* server.js:15 sets 5; the model plays on a smaller cube.
BOARD_SIZE == 3

\* server.js:16-22 lists five ships of lengths 5,4,3,3,2; the model keeps a
\* catalog of two ships (two names, so that duplicate names, overlap and
\* "sunk but not won" exist), short enough for the scaled board.
SHIPS == << [name |-> "Destroyer", length |-> 2],
            [name |-> "Submarine", length |-> 1] >>

\* server.js:25 sets 200; the model keeps a shorter log, so that trimming
\* happens.
MAX_CHAT_MESSAGES == 2

\* JavaScript null (an absent turn, username, board cell, ship name).
null == "null"

\* socket.id of the connections the model follows; an id is never reused.
Sockets == {"s1", "s2", "s3"}

\* server.js:14
ROOM_CODE_LENGTH == 6

\* The values Math.floor(Math.random() * 10^ROOM_CODE_LENGTH) takes in the
\* model (one of the 10^6: a code is free again once its room is deleted).
CodeDraws == {42}

\* At most this many rooms are live at once.
MaxRooms == 1

\* At most this many user chat entries are in a room's log at once.
MaxUserChat == 1

Axis == 0 .. (BOARD_SIZE - 1)

Cells == Axis \X Axis \X Axis

ShipNames == {SHIPS[i].name : i \in 1 .. Len(SHIPS)}

(***************************************************************************)
(* Sequence helpers                                                        *)
(***************************************************************************)

Range(s) == {s[i] : i \in 1 .. Len(s)}

\* Number.prototype.toString: the decimal digits of n >= 0.
RECURSIVE toString(_)
toString(n) == IF n < 10 THEN <<n>> ELSE toString(n \div 10) \o <<n % 10>>

\* String.prototype.padStart
RECURSIVE padStart(_, _, _)
padStart(s, targetLength, pad) ==
    IF Len(s) >= targetLength THEN s
    ELSE padStart(<<pad>> \o s, targetLength, pad)

\* The code generateRoomCode builds from one random draw.
FormatCode(n) == padStart(toString(n), ROOM_CODE_LENGTH, 0)

Codes == {FormatCode(n) : n \in CodeDraws}

\* The codes clients send: the codes rooms can have and one no room has.
CodeInputs == Codes \cup {FormatCode(0)}

(***************************************************************************)
(* Boards, players, rooms                                                  *)
(***************************************************************************)

\* `${x}:${y}:${z}`: the key of a coordinate in hits, misses and occupied.
coordKey(x, y, z) == <<x, y, z>>

createEmptyBoard == [c \in Cells |-> null]

\* The player record pushed by createGame and joinGame.
NewPlayer(id) ==
    [id |-> id, ready |-> FALSE, board |-> createEmptyBoard, ships |-> <<>>,
     hits |-> {}, misses |-> {}, username |-> null]

\* Index of the first player with this id, 0 when there is none
\* (room.players.find(...) || null).
getPlayer(room, socketId) ==
    IF \E i \in 1 .. Len(room.players) : room.players[i].id = socketId
    THEN CHOOSE i \in 1 .. Len(room.players) :
            /\ room.players[i].id = socketId
            /\ \A j \in 1 .. (i - 1) : room.players[j].id # socketId
    ELSE 0

\* Index of the opponent, 0 when the second seat is empty.
getOpponent(room, socketId) ==
    IF Len(room.players) < 2 THEN 0
    ELSE IF room.players[1].id = socketId THEN 2 ELSE 1

\* rooms.set(code, room) / rooms.delete(code)
RoomsSet(rs, code, room) ==
    [c \in (DOMAIN rs) \cup {code} |-> IF c = code THEN room ELSE rs[c]]

RoomsDelete(rs, code) == [c \in (DOMAIN rs) \ {code} |-> rs[c]]

(***************************************************************************)
(* Chat and broadcasts                                                     *)
(***************************************************************************)

\* createChatEntry, without the timestamp.  A message is the sequence of
\* the pieces its template joins.
createChatEntry(id, username, message, kind) ==
    [id |-> id, username |-> username, message |-> message, kind |-> kind]

\* A faulty trim: the newest entries are dropped.
trimChatHistoryNewest(chat) ==
    IF Len(chat) <= MAX_CHAT_MESSAGES THEN chat
    ELSE SubSeq(chat, 1, MAX_CHAT_MESSAGES)

\* trimChatHistory: drop the oldest entries beyond MAX_CHAT_MESSAGES.
trimChatHistory(chat) ==
    IF Len(chat) <= MAX_CHAT_MESSAGES THEN chat
    ELSE SubSeq(chat, Len(chat) - MAX_CHAT_MESSAGES + 1, Len(chat))

\* An event emitted with io.to(code).emit(type, data).
Event(type, code, data) == [type |-> type, code |-> code, data |-> data]

\* recordAndBroadcastChat: the room with the entry appended and trimmed.
recordChat(room, entry) ==
    [room EXCEPT !.chat = trimChatHistory(Append(room.chat, entry))]

\* The payload of an event that carries none.
NoData == [none |-> null]

chatUpdate(code, entry) == Event("chatUpdate", code, entry)

\* emitSystemChat builds this entry (every message the server passes is
\* non-empty).
SystemEntry(message) == createChatEntry("system", "System", message, "system")

\* The roomState snapshot emitRoomState broadcasts for a live room.
emitRoomState(code, room) ==
    Event("roomState", code,
          [players |-> [i \in 1 .. Len(room.players) |->
                            [id |-> room.players[i].id,
                             username |-> room.players[i].username,
                             ready |-> room.players[i].ready]],
           turn |-> room.turn,
           started |-> room.turn # null])

(***************************************************************************)
(* Initial state                                                           *)
(***************************************************************************)

\* No createGame is inside generateRoomCode.
NotGenerating == [socket |-> null, code |-> <<>>]

\* No generateAutomaticPlacements call is in progress in the client.
NotPlacing ==
    [status |-> "idle", ship |-> 0, attempts |-> 0, placements |-> <<>>,
     occupied |-> {}]

\* History of a live room: the winner an attack outcome declared (null when
\* none did), the identity of the last accepted attack, the socket whose
\* createGame made the room and the number of joinGame requests that
\* succeeded in it.
NoHist ==
    [winner |-> null, lastAttacker |-> null, creator |-> null, joins |-> 0]

Init ==
    /\ rooms = [c \in {} |-> 0]
    /\ socketRooms = [s \in Sockets |-> <<>>]
    /\ connected = Sockets
    /\ hist = [c \in {} |-> 0]
    /\ generating = NotGenerating
    /\ auto = NotPlacing

(***************************************************************************)
(* createGame (server.js:157-180)                                          *)
(***************************************************************************)

\* The codes generateRoomCode can return: a draw that is not a live code.
generateRoomCode(rs) == Codes \ DOMAIN rs

\* socket.join(code): socket.rooms is a Set in insertion order.
SocketJoin(sr, s, code) ==
    IF code \in Range(sr[s]) THEN sr
    ELSE [sr EXCEPT ![s] = Append(@, code)]

\* socket.io gives every connection a fresh id.  The model names the
\* connections in the order of their first createGame or joinGame: s may
\* take a seat if it has one already or is the next unused connection.
Index(s) == CHOOSE i \in 1 .. 3 : <<"s1", "s2", "s3">>[i] = s

Used(s) == s \notin connected \/ socketRooms[s] # <<>>

NextInOrder(s) ==
    Used(s) \/ \A t \in Sockets : Index(t) < Index(s) => Used(t)

\* newRoom, as emitRoomState first shows it.
NewRoom(s, code) ==
    [code |-> code, players |-> <<NewPlayer(s)>>, turn |-> null, chat |-> <<>>]

RoomCreatedEntry ==
    SystemEntry(<<"Room created. Share the code to invite an opponent.">>)

\* A faulty createGame: the room is stored without the system entry.
CreateGameRoomsSilent(rs, s, code) == RoomsSet(rs, code, NewRoom(s, code))

\* The registry after createGame of s with the code the loop returned.
CreateGameRooms(rs, s, code) ==
    RoomsSet(rs, code, recordChat(NewRoom(s, code), RoomCreatedEntry))

\* The reply of createGame: it is sent before the system entry is recorded
\* (server.js:177), so chat is the log of newRoom as built.
CreateGameReply(s, code) ==
    [code |-> code, ships |-> SHIPS, boardSize |-> BOARD_SIZE,
     chat |-> NewRoom(s, code).chat]

\* The broadcasts of createGame, in the order emitted.
CreateGameEvents(rs, s, code) ==
    <<emitRoomState(code, NewRoom(s, code)), chatUpdate(code, RoomCreatedEntry)>>

CreateGame(s) ==
    /\ s \in connected
    /\ NextInOrder(s)
    /\ Cardinality(DOMAIN rooms) < MaxRooms
    /\ \E code \in generateRoomCode(rooms) :
        /\ rooms' = CreateGameRooms(rooms, s, code)
        /\ socketRooms' = SocketJoin(socketRooms, s, code)
        /\ hist' = RoomsSet(hist, code, [NoHist EXCEPT !.creator = s])
    /\ UNCHANGED <<connected, generating, auto>>

(***************************************************************************)
(* joinGame (server.js:182-211)                                            *)
(***************************************************************************)

\* A faulty joinGame check: a full room is not turned away.
JoinGameErrorNoFull(rs, s, code) ==
    IF code \notin DOMAIN rs THEN "Room not found." ELSE "none"

\* The error joinGame replies, "none" when the caller is seated.
JoinGameError(rs, s, code) ==
    IF code \notin DOMAIN rs THEN "Room not found."
    ELSE IF Len(rs[code].players) >= 2 THEN "Room is full."
    ELSE "none"

JoinedEntry == SystemEntry(<<"A commander joined the battle.">>)

\* The registry after joinGame.
JoinGameRooms(rs, s, code) ==
    IF JoinGameError(rs, s, code) # "none" THEN rs
    ELSE RoomsSet(rs, code,
             recordChat([rs[code] EXCEPT !.players = Append(@, NewPlayer(s))],
                        JoinedEntry))

\* A faulty announcement: playerJoined is broadcast before the checks.
JoinGameEventsAlways(rs, s, code) == <<Event("playerJoined", code, NoData)>>

\* The broadcasts of joinGame, in the order emitted.
JoinGameEvents(rs, s, code) ==
    IF JoinGameError(rs, s, code) # "none" THEN <<>>
    ELSE <<Event("playerJoined", code, NoData),
           chatUpdate(code, JoinedEntry),
           emitRoomState(code, JoinGameRooms(rs, s, code)[code])>>

JoinGame(s, code) ==
    /\ s \in connected
    /\ NextInOrder(s)
    /\ rooms' = JoinGameRooms(rooms, s, code)
    /\ socketRooms' = IF JoinGameError(rooms, s, code) # "none" THEN socketRooms
                      ELSE SocketJoin(socketRooms, s, code)
    /\ hist' = IF JoinGameError(rooms, s, code) # "none" THEN hist
               ELSE [hist EXCEPT ![code].joins = @ + 1]
    /\ UNCHANGED <<connected, generating, auto>>

(***************************************************************************)
(* placeShips: validation (server.js:246-340)                              *)
(***************************************************************************)

\* A submitted coordinate is any JSON value.  kind "number" is the integer
\* v, "string" the numeric string of v, "fraction" the number v + 1/2,
\* "null" is null and "undefined" a missing field (or a null cell).
Raw(kind, v) == [kind |-> kind, v |-> v]

\* Number(value) followed by Number.isInteger: the integer it converts to,
\* or int = FALSE for a fraction or NaN.
ToNumber(raw) ==
    CASE raw.kind = "number"   -> [int |-> TRUE, v |-> raw.v]
      [] raw.kind = "string"   -> [int |-> TRUE, v |-> raw.v]
      [] raw.kind = "null"     -> [int |-> TRUE, v |-> 0]
      [] raw.kind = "fraction" -> [int |-> FALSE, v |-> raw.v]
      [] OTHER                 -> [int |-> FALSE, v |-> 0]

\* expectedShips.get(name): the catalog length, 0 (undefined) when the
\* name is not in the catalog.
requiredLength(name) ==
    IF \E i \in 1 .. Len(SHIPS) : SHIPS[i].name = name
    THEN SHIPS[CHOOSE i \in 1 .. Len(SHIPS) : SHIPS[i].name = name].length
    ELSE 0

InBounds(x, y, z) ==
    ~ (x < 0 \/ y < 0 \/ z < 0 \/
       x >= BOARD_SIZE \/ y >= BOARD_SIZE \/ z >= BOARD_SIZE)

\* The error the map over ship.cells throws for one cell, "none" if the cell
\* is normalized (server.js:281-292).
CellError(cell) ==
    LET x == ToNumber(cell.x)
        y == ToNumber(cell.y)
        z == ToNumber(cell.z)
    IN  IF ~ (x.int /\ y.int /\ z.int)
        THEN "Ship coordinates must be whole numbers."
        ELSE IF ~ InBounds(x.v, y.v, z.v) THEN "Ship out of bounds"
        ELSE "none"

normalizeCell(cell) ==
    <<ToNumber(cell.x).v, ToNumber(cell.y).v, ToNumber(cell.z).v>>

\* The error of the first cell the map rejects.
FirstCellError(cells) ==
    IF \E i \in 1 .. Len(cells) : CellError(cells[i]) # "none"
    THEN CellError(cells[CHOOSE i \in 1 .. Len(cells) :
                            /\ CellError(cells[i]) # "none"
                            /\ \A j \in 1 .. (i - 1) : CellError(cells[j]) = "none"])
    ELSE "none"

\* The axes (1 = x, 2 = y, 3 = z) along which the cells take more than one
\* value (server.js:296-299).
varyingAxes(cells) ==
    {a \in 1 .. 3 : Cardinality({cells[i][a] : i \in 1 .. Len(cells)}) > 1}

\* sortedValues[index] = sortedValues[index - 1] + 1 for every index: the
\* sorted values along the axis are a run without gap or repeat.
Consecutive(cells, axis) ==
    LET values == {cells[i][axis] : i \in 1 .. Len(cells)}
    IN  /\ Cardinality(values) = Len(cells)
        /\ \A v \in values :
              v = (CHOOSE m \in values : \A w \in values : m <= w)
              \/ (v - 1) \in values

\* The error of the straight-line checks on normalized cells, "none" if they
\* pass (server.js:294-323).
GeometryError(cells) ==
    IF Len(cells) > 1
    THEN IF Cardinality(varyingAxes(cells)) # 1
         THEN "Ships must be placed in a straight line."
         ELSE LET axis == CHOOSE a \in varyingAxes(cells) : TRUE
              IN  IF ~ Consecutive(cells, axis)
                  THEN "Ships must occupy consecutive cells."
                  ELSE IF \E a \in (1 .. 3) \ {axis} :
                             Cardinality({cells[i][a] : i \in 1 .. Len(cells)}) # 1
                       THEN "Ships must align to a single axis."
                       ELSE "none"
    ELSE "none"

\* A faulty overlap check: occupied is never consulted.
OverlapErrorNone(cells, occupied) == "none"

\* The forEach over the normalized cells throws when a key is already in
\* occupied: a cell of an earlier ship, or an earlier cell of this ship
\* (server.js:325-332).
OverlapError(cells, occupied) ==
    IF \E i \in 1 .. Len(cells) :
          \/ cells[i] \in occupied
          \/ \E j \in 1 .. (i - 1) : cells[j] = cells[i]
    THEN "Ships cannot overlap"
    ELSE "none"

\* The checks of one entry of the submission, in the order of the code.
ShipError(ship, acc) ==
    IF ~ ship.wellFormed THEN "Invalid ship configuration"
    ELSE IF requiredLength(ship.name) = 0 THEN "Unexpected ship provided."
    ELSE IF ship.name \in acc.seenNames
         THEN "Duplicate ship entries are not allowed."
    ELSE IF Len(ship.cells) # requiredLength(ship.name)
         THEN "must occupy exactly the required cells."
    ELSE IF FirstCellError(ship.cells) # "none"
         THEN FirstCellError(ship.cells)
    ELSE LET cells == [i \in 1 .. Len(ship.cells) |-> normalizeCell(ship.cells[i])]
         IN  IF GeometryError(cells) # "none" THEN GeometryError(cells)
             ELSE OverlapError(cells, acc.occupied)

\* One pass of ships.forEach over an entry that raised no error.
AddShip(ship, acc) ==
    LET cells == [i \in 1 .. Len(ship.cells) |-> normalizeCell(ship.cells[i])]
    IN  [error |-> "none",
         board |-> [c \in Cells |->
                       IF c \in Range(cells) THEN ship.name ELSE acc.board[c]],
         occupied |-> acc.occupied \cup Range(cells),
         seenNames |-> acc.seenNames \cup {ship.name},
         sanitizedShips |-> Append(acc.sanitizedShips,
                                   [name |-> ship.name, cells |-> cells])]

\* ships.forEach inside the try: stops at the first entry that throws.
RECURSIVE forEachShip(_, _, _)
forEachShip(ships, i, acc) ==
    IF i > Len(ships) THEN acc
    ELSE IF ShipError(ships[i], acc) # "none"
         THEN [acc EXCEPT !.error = ShipError(ships[i], acc)]
         ELSE forEachShip(ships, i + 1, AddShip(ships[i], acc))

\* The validation of a submission: error is the message of the rejection,
\* "none" when the fleet is accepted; board and sanitizedShips are what the
\* handler then stores.
ValidateFleet(sub) ==
    LET start == [error |-> "none", board |-> createEmptyBoard,
                  occupied |-> {}, seenNames |-> {}, sanitizedShips |-> <<>>]
    IN  IF ~ sub.isArray
        THEN [start EXCEPT !.error = "Invalid ship data submitted."]
        ELSE IF Len(sub.ships) # Len(SHIPS)
        THEN [start EXCEPT !.error = "All ships must be placed before locking in."]
        ELSE forEachShip(sub.ships, 1, start)

(***************************************************************************)
(* placeShips: the handler (server.js:233-357)                             *)
(***************************************************************************)

\* The error placeShips replies, "none" when the fleet is stored.
PlaceShipsError(rs, s, code, sub) ==
    IF code \notin DOMAIN rs THEN "Room not found."
    ELSE IF getPlayer(rs[code], s) = 0 THEN "Player not part of room."
    ELSE ValidateFleet(sub).error

\* A faulty commit: the board built by the validation is not stored.
CommitPlacementShipsOnly(room, idx, v) ==
    [room EXCEPT !.players[idx].ships = v.sanitizedShips,
                 !.players[idx].ready = TRUE]

\* player.board = board; player.ships = sanitizedShips; player.ready = true
CommitPlacement(room, idx, v) ==
    [room EXCEPT !.players[idx].board = v.board,
                 !.players[idx].ships = v.sanitizedShips,
                 !.players[idx].ready = TRUE]

\* A faulty start test: one ready player is enough.
BothReadyAlone(room) ==
    \E i \in 1 .. Len(room.players) : room.players[i].ready

\* room.players.length === 2 && room.players.every((p) => p.ready)
BothReady(room) ==
    /\ Len(room.players) = 2
    /\ \A i \in 1 .. Len(room.players) : room.players[i].ready

\* A faulty start: the turn goes to the second seat.
StartMatchSecond(room) ==
    IF BothReady(room) THEN [room EXCEPT !.turn = room.players[2].id]
    ELSE room

\* The start transition after the commit (server.js:350-356).
StartMatch(room) ==
    IF BothReady(room) THEN [room EXCEPT !.turn = room.players[1].id]
    ELSE room

\* A faulty placeShips: the board, the ships and the ready flag are stored
\* before the validation has finished.
PlaceShipsRoomsEager(rs, s, code, sub) ==
    IF code \notin DOMAIN rs THEN rs
    ELSE IF getPlayer(rs[code], s) = 0 THEN rs
    ELSE RoomsSet(rs, code,
             StartMatch(CommitPlacement(rs[code], getPlayer(rs[code], s),
                                        ValidateFleet(sub))))

\* The registry after placeShips: untouched when the request is rejected.
PlaceShipsRooms(rs, s, code, sub) ==
    IF PlaceShipsError(rs, s, code, sub) # "none" THEN rs
    ELSE RoomsSet(rs, code,
             StartMatch(CommitPlacement(rs[code], getPlayer(rs[code], s),
                                        ValidateFleet(sub))))

\* A faulty announcement: no snapshot follows gameStarted.
PlaceShipsEventsOnce(rs, s, code, sub) ==
    IF PlaceShipsError(rs, s, code, sub) # "none" THEN <<>>
    ELSE LET committed == CommitPlacement(rs[code], getPlayer(rs[code], s),
                                          ValidateFleet(sub))
         IN  IF BothReady(committed)
             THEN <<emitRoomState(code, committed),
                    Event("gameStarted", code,
                          [turn |-> StartMatch(committed).turn])>>
             ELSE <<emitRoomState(code, committed),
                    Event("playerReady", code, NoData)>>

\* The broadcasts of placeShips, in the order emitted.
PlaceShipsEvents(rs, s, code, sub) ==
    IF PlaceShipsError(rs, s, code, sub) # "none" THEN <<>>
    ELSE LET committed == CommitPlacement(rs[code], getPlayer(rs[code], s),
                                          ValidateFleet(sub))
         IN  IF BothReady(committed)
             THEN <<emitRoomState(code, committed),
                    Event("gameStarted", code,
                          [turn |-> StartMatch(committed).turn]),
                    emitRoomState(code, StartMatch(committed))>>
             ELSE <<emitRoomState(code, committed),
                    Event("playerReady", code, NoData)>>

PlaceShips(s, code, sub) ==
    /\ s \in connected
    /\ rooms' = PlaceShipsRooms(rooms, s, code, sub)
    /\ UNCHANGED <<socketRooms, connected, hist, generating, auto>>

(***************************************************************************)
(* attack (server.js:359-436)                                              *)
(***************************************************************************)

\* A faulty attack check: the turn is not compared with the caller.
AttackErrorNoTurn(rs, s, code, target) ==
    IF code \notin DOMAIN rs THEN "Room not found."
    ELSE IF getOpponent(rs[code], s) = 0 \/ getPlayer(rs[code], s) = 0
         THEN "Opponent not found."
    ELSE IF ~ InBounds(target[1], target[2], target[3]) THEN "Invalid target."
    ELSE IF LET player == rs[code].players[getPlayer(rs[code], s)]
                coord == coordKey(target[1], target[2], target[3])
            IN  coord \in player.hits \/ coord \in player.misses
         THEN "Coordinate already targeted."
    ELSE "none"

\* A faulty attack check: earlier shots are not looked up.
AttackErrorNoRepeat(rs, s, code, target) ==
    IF code \notin DOMAIN rs THEN "Room not found."
    ELSE IF rs[code].turn # s THEN "Not your turn."
    ELSE IF getOpponent(rs[code], s) = 0 \/ getPlayer(rs[code], s) = 0
         THEN "Opponent not found."
    ELSE IF ~ InBounds(target[1], target[2], target[3]) THEN "Invalid target."
    ELSE "none"

\* A faulty order of the attack checks: the target is tested before the
\* opponent.
AttackErrorBoundsFirst(rs, s, code, target) ==
    IF code \notin DOMAIN rs THEN "Room not found."
    ELSE IF rs[code].turn # s THEN "Not your turn."
    ELSE IF ~ InBounds(target[1], target[2], target[3]) THEN "Invalid target."
    ELSE IF getOpponent(rs[code], s) = 0 \/ getPlayer(rs[code], s) = 0
         THEN "Opponent not found."
    ELSE IF LET player == rs[code].players[getPlayer(rs[code], s)]
                coord == coordKey(target[1], target[2], target[3])
            IN  coord \in player.hits \/ coord \in player.misses
         THEN "Coordinate already targeted."
    ELSE "none"

\* The error attack replies, "none" when the attack is accepted.  A target
\* is a triple of integers.
AttackError(rs, s, code, target) ==
    IF code \notin DOMAIN rs THEN "Room not found."
    ELSE IF rs[code].turn # s THEN "Not your turn."
    ELSE IF getOpponent(rs[code], s) = 0 \/ getPlayer(rs[code], s) = 0
         THEN "Opponent not found."
    ELSE IF ~ InBounds(target[1], target[2], target[3]) THEN "Invalid target."
    ELSE IF LET player == rs[code].players[getPlayer(rs[code], s)]
                coord == coordKey(target[1], target[2], target[3])
            IN  coord \in player.hits \/ coord \in player.misses
         THEN "Coordinate already targeted."
    ELSE "none"

\* opponent.ships.find((s) => s.name === cell)
findShip(ships, name) ==
    ships[CHOOSE i \in 1 .. Len(ships) :
             /\ ships[i].name = name
             /\ \A j \in 1 .. (i - 1) : ships[j].name # name]

\* A faulty sunk test: all hits are counted, not those on this ship.
ShipSunkByCount(ship, hits) == Cardinality(hits) >= Len(ship.cells)

\* hitCount === ship.cells.length
ShipSunk(ship, hits) ==
    Cardinality({i \in 1 .. Len(ship.cells) : ship.cells[i] \in hits})
        = Len(ship.cells)

\* A faulty win test: one sunk ship is enough.
allShipsSunkAny(ships, hits) ==
    \E i \in 1 .. Len(ships) :
        \A j \in 1 .. Len(ships[i].cells) : ships[i].cells[j] \in hits

\* opponent.ships.every((ship) => ship.cells.every((c) => player.hits.has(c)))
allShipsSunk(ships, hits) ==
    \A i \in 1 .. Len(ships) :
        \A j \in 1 .. Len(ships[i].cells) : ships[i].cells[j] \in hits

\* The attacker's record after the shot (server.js:397-412).
RecordShot(player, opponent, coord) ==
    IF opponent.board[coord] # null
    THEN [player EXCEPT !.hits = @ \cup {coord}]
    ELSE [player EXCEPT !.misses = @ \cup {coord}]

\* result and shipName of the shot; player is the attacker after the shot.
ShotResult(player, opponent, coord) ==
    LET cell == opponent.board[coord]
    IN  IF cell # null
        THEN [result |-> IF ShipSunk(findShip(opponent.ships, cell), player.hits)
                         THEN "sunk" ELSE "hit",
              shipName |-> cell]
        ELSE [result |-> "miss", shipName |-> null]

\* The outcome object (server.js:418-425); player is the attacker after the
\* shot.
Outcome(s, target, player, opponent, coord) ==
    LET won == allShipsSunk(opponent.ships, player.hits)
        res == ShotResult(player, opponent, coord)
    IN  [attacker |-> s, target |-> target, result |-> res.result,
         shipName |-> res.shipName,
         nextTurn |-> IF won THEN null ELSE opponent.id,
         winner |-> IF won THEN s ELSE null]

\* The payload of an accepted attack in room.
AttackPayload(room, s, target) ==
    LET opponent == room.players[getOpponent(room, s)]
        coord == coordKey(target[1], target[2], target[3])
        player == RecordShot(room.players[getPlayer(room, s)], opponent, coord)
    IN  Outcome(s, target, player, opponent, coord)

\* A faulty turn update: the turn is never handed over.
TurnAfterAttackKept(room, payload, opponent) == room.turn

\* room.turn after the attack (server.js:427-429).
TurnAfterAttack(room, payload, opponent) ==
    IF payload.winner = null THEN opponent.id ELSE room.turn

\* The room after an accepted attack.
AttackRoom(room, s, target) ==
    LET pi == getPlayer(room, s)
        opponent == room.players[getOpponent(room, s)]
        coord == coordKey(target[1], target[2], target[3])
    IN  [room EXCEPT
            !.players[pi] = RecordShot(room.players[pi], opponent, coord),
            !.turn = TurnAfterAttack(room, AttackPayload(room, s, target),
                                     opponent)]

\* The registry after attack: untouched when the request is rejected.
AttackRooms(rs, s, code, target) ==
    IF AttackError(rs, s, code, target) # "none" THEN rs
    ELSE RoomsSet(rs, code, AttackRoom(rs[code], s, target))

AttackEvents(rs, s, code, target) ==
    IF AttackError(rs, s, code, target) # "none" THEN <<>>
    ELSE <<Event("attackResult", code, AttackPayload(rs[code], s, target)),
           emitRoomState(code, AttackRoom(rs[code], s, target))>>

\* The history of the room after an accepted attack.
HistAfterAttack(h, payload) ==
    [winner |-> IF payload.winner # null THEN payload.winner ELSE h.winner,
     lastAttacker |-> payload.attacker,
     creator |-> h.creator,
     joins |-> h.joins]

Attack(s, code, target) ==
    /\ s \in connected
    /\ rooms' = AttackRooms(rooms, s, code, target)
    /\ hist' = IF AttackError(rooms, s, code, target) # "none" THEN hist
               ELSE [hist EXCEPT ![code] =
                        HistAfterAttack(@, AttackPayload(rooms[code], s, target))]
    /\ UNCHANGED <<socketRooms, connected, generating, auto>>

\* Targets that are not a triple of integers, by what the handler makes of
\* them once the room, turn and opponent checks are passed:
\*   "missing"   no target: the destructuring { x, y, z } = target throws
\*               (server.js:378);
\*   "fraction"  x = 1/2: the bounds test and the repeat test pass,
\*               opponent.board[0.5] is undefined and reading [y] of it
\*               throws (server.js:397);
\*   "length"    z = "length": every comparison with NaN is false, the key
\*               is new, board[x][y].length is truthy, the key is added to
\*               hits, ships.find returns undefined and ship.cells throws
\*               (server.js:400-406).
MalformedTargets == {"missing", "fraction", "length"}

\* The attack handler throws on this target: the request passes the three
\* checks before the target is read.
AttackThrows(rs, s, code, raw) ==
    /\ code \in DOMAIN rs
    /\ rs[code].turn = s
    /\ getOpponent(rs[code], s) # 0
    /\ getPlayer(rs[code], s) # 0

\* An attack on which the handler throws.  Nothing catches the exception
\* of a listener: the process ends, and with it the registry and every
\* connection; no reply and no broadcast is sent.
AttackMalformed(s, code, raw) ==
    /\ s \in connected
    /\ AttackThrows(rooms, s, code, raw)
    /\ rooms' = <<>>
    /\ hist' = <<>>
    /\ connected' = {}
    /\ socketRooms' = [t \in Sockets |-> <<>>]
    /\ UNCHANGED <<generating, auto>>

(***************************************************************************)
(* setUsername (server.js:213-231)                                         *)
(***************************************************************************)

\* A submitted username is given by what the handler makes of it: whether
\* it is a string, and the text left by trim() and slice(0, 20) ("" when
\* nothing is left).
UsernameInputs ==
    {[isString |-> TRUE, trimmed |-> "Ann"],
     [isString |-> TRUE, trimmed |-> ""],
     [isString |-> FALSE, trimmed |-> ""]}

\* limited || null
limitedUsername(username) ==
    IF username.isString /\ username.trimmed # "" THEN username.trimmed ELSE null

usernameUpdate(code, room) ==
    Event("usernameUpdate", code,
          [players |-> [i \in 1 .. Len(room.players) |->
                            [id |-> room.players[i].id,
                             username |-> room.players[i].username]]])

\* The room with the player at idx renamed, before the announcement.
Renamed(room, idx, username) ==
    [room EXCEPT !.players[idx].username = limitedUsername(username)]

\* player.username && player.username !== previousName
Announced(room, idx, username) ==
    /\ limitedUsername(username) # null
    /\ limitedUsername(username) # room.players[idx].username

RenameEntry(room, idx, username) ==
    SystemEntry(IF room.players[idx].username # null
                THEN <<room.players[idx].username, " is now known as ",
                       limitedUsername(username), ".">>
                ELSE <<limitedUsername(username), " reported for duty.">>)

\* A faulty setUsername: the caller is renamed in every room it is seated
\* in, as if the rooms shared one player object per identity.
SetUsernameRoomsEverywhere(rs, s, code, username) ==
    IF code \notin DOMAIN rs THEN rs
    ELSE IF getPlayer(rs[code], s) = 0 THEN rs
    ELSE [c \in DOMAIN rs |->
             IF getPlayer(rs[c], s) = 0 THEN rs[c]
             ELSE Renamed(rs[c], getPlayer(rs[c], s), username)]

\* The registry after setUsername: untouched for an unknown room or caller.
SetUsernameRooms(rs, s, code, username) ==
    IF code \notin DOMAIN rs THEN rs
    ELSE IF getPlayer(rs[code], s) = 0 THEN rs
    ELSE LET idx == getPlayer(rs[code], s)
             named == Renamed(rs[code], idx, username)
         IN  RoomsSet(rs, code,
                 IF Announced(rs[code], idx, username)
                 THEN recordChat(named, RenameEntry(rs[code], idx, username))
                 ELSE named)

\* The broadcasts of setUsername, in the order emitted.
SetUsernameEvents(rs, s, code, username) ==
    IF code \notin DOMAIN rs THEN <<>>
    ELSE IF getPlayer(rs[code], s) = 0 THEN <<>>
    ELSE LET idx == getPlayer(rs[code], s)
             named == Renamed(rs[code], idx, username)
         IN  <<emitRoomState(code, named), usernameUpdate(code, named)>>
             \o (IF Announced(rs[code], idx, username)
                 THEN <<chatUpdate(code, RenameEntry(rs[code], idx, username))>>
                 ELSE <<>>)

SetUsername(s, code, username) ==
    /\ s \in connected
    /\ rooms' = SetUsernameRooms(rooms, s, code, username)
    /\ UNCHANGED <<socketRooms, connected, hist, generating, auto>>

(***************************************************************************)
(* chatMessage (server.js:438-463)                                         *)
(***************************************************************************)

\* server.js:26
MAX_CHAT_LENGTH == 200

\* A submitted message is given by what sanitizeChatMessage makes of it:
\* whether it is a string, the text left by collapsing whitespace and
\* trimming, and the length of that text.
MessageInputs ==
    {[isString |-> TRUE, normalized |-> "hi", length |-> 2],
     [isString |-> TRUE, normalized |-> "", length |-> 0],
     [isString |-> TRUE, normalized |-> "long", length |-> MAX_CHAT_LENGTH + 1],
     [isString |-> FALSE, normalized |-> "", length |-> 0]}

\* The error of sanitizeChatMessage, "none" when it returns a value.
sanitizeChatMessage(raw) ==
    IF ~ raw.isString THEN "Chat message must be text."
    ELSE IF raw.length = 0 THEN "Chat messages must contain visible characters."
    ELSE IF raw.length > MAX_CHAT_LENGTH
         THEN "Chat messages must be 200 characters or fewer."
    ELSE "none"

\* The error chatMessage replies, "none" when the entry is recorded.
ChatMessageError(rs, s, code, message) ==
    IF code \notin DOMAIN rs THEN "Room not found."
    ELSE IF getPlayer(rs[code], s) = 0 THEN "Player not part of room."
    ELSE sanitizeChatMessage(message)

\* The entry chatMessage records for a seated caller.
UserEntry(room, s, message) ==
    LET player == room.players[getPlayer(room, s)]
    IN  createChatEntry(s,
                        IF player.username # null THEN player.username
                        ELSE "Player",
                        <<message.normalized>>, "user")

\* The registry after chatMessage: untouched when the request is rejected.
ChatMessageRooms(rs, s, code, message) ==
    IF ChatMessageError(rs, s, code, message) # "none" THEN rs
    ELSE RoomsSet(rs, code, recordChat(rs[code], UserEntry(rs[code], s, message)))

UserEntries(room) ==
    Cardinality({i \in 1 .. Len(room.chat) : room.chat[i].kind = "user"})

\* The broadcasts of chatMessage.
ChatMessageEvents(rs, s, code, message) ==
    IF ChatMessageError(rs, s, code, message) # "none" THEN <<>>
    ELSE <<chatUpdate(code, UserEntry(rs[code], s, message))>>

ChatMessage(s, code, message) ==
    /\ s \in connected
    /\ ChatMessageError(rooms, s, code, message) = "none"
          => UserEntries(rooms[code]) < MaxUserChat
    /\ rooms' = ChatMessageRooms(rooms, s, code, message)
    /\ UNCHANGED <<socketRooms, connected, hist, generating, auto>>

(***************************************************************************)
(* disconnecting (server.js:465-484) and removePlayerFromRoom (140-154)    *)
(***************************************************************************)

\* room.players.filter((player) => player.id !== socketId)
remainingPlayers(room, socketId) ==
    SelectSeq(room.players, LAMBDA p : p.id # socketId)

\* A faulty removal: a room whose last player left stays in the registry.
removePlayerFromRoomKeepsEmpty(rs, roomCode, socketId) ==
    IF roomCode \notin DOMAIN rs THEN rs
    ELSE RoomsSet(rs, roomCode,
             [rs[roomCode] EXCEPT
                 !.players = remainingPlayers(rs[roomCode], socketId)])

\* The registry after removePlayerFromRoom: the room is deleted when nobody
\* remains (the function then returns null), else it keeps the others.
removePlayerFromRoom(rs, roomCode, socketId) ==
    IF roomCode \notin DOMAIN rs THEN rs
    ELSE IF Len(remainingPlayers(rs[roomCode], socketId)) = 0
         THEN RoomsDelete(rs, roomCode)
         ELSE RoomsSet(rs, roomCode,
                  [rs[roomCode] EXCEPT
                      !.players = remainingPlayers(rs[roomCode], socketId)])

\* A faulty hand-over: the turn is left as it was when its holder departs.
TurnAfterLeaveKept(room, updatedRoom, s) == updatedRoom.turn

\* A faulty hand-over: whoever departs, the turn goes to the first seat
\* that remains.
TurnAfterLeaveFirst(room, updatedRoom, s) == updatedRoom.players[1].id

\* updatedRoom.turn after the departure (server.js:476-478); room is the
\* room before the removal, updatedRoom the room without the leaver.
TurnAfterLeave(room, updatedRoom, s) ==
    IF room.turn = s
    THEN IF getOpponent(room, s) # 0
         THEN room.players[getOpponent(room, s)].id
         ELSE updatedRoom.players[1].id
    ELSE updatedRoom.turn

\* A faulty farewell: the departed player is never named.
LeaverNameGeneric(room, s) == "A commander"

\* departingPlayer?.username?.trim() || 'A commander'
LeaverName(room, s) ==
    IF getPlayer(room, s) # 0 /\ room.players[getPlayer(room, s)].username # null
    THEN room.players[getPlayer(room, s)].username
    ELSE "A commander"

LeftEntry(room, s) == SystemEntry(<<LeaverName(room, s), " left the battle.">>)

\* One pass of roomCodes.forEach over a live room.
LeaveRoom(rs, s, code) ==
    LET removed == removePlayerFromRoom(rs, code, s)
    IN  IF code \notin DOMAIN removed THEN removed
        ELSE RoomsSet(removed, code,
                 recordChat([removed[code] EXCEPT
                                !.turn = TurnAfterLeave(rs[code], removed[code], s)],
                            LeftEntry(rs[code], s)))

\* A faulty notice: playerLeft is sent only for a room that survives.
LeaveEventsSurvivors(rs, s, code) ==
    IF code \notin DOMAIN LeaveRoom(rs, s, code)
    THEN <<>>
    ELSE <<Event("playerLeft", code, [leaver |-> s]),
           chatUpdate(code, LeftEntry(rs[code], s)),
           emitRoomState(code, LeaveRoom(rs, s, code)[code])>>

\* The broadcasts of one pass of roomCodes.forEach, in the order emitted.
LeaveEvents(rs, s, code) ==
    IF code \notin DOMAIN LeaveRoom(rs, s, code)
    THEN <<Event("playerLeft", code, [leaver |-> s])>>
    ELSE <<Event("playerLeft", code, [leaver |-> s]),
           chatUpdate(code, LeftEntry(rs[code], s)),
           emitRoomState(code, LeaveRoom(rs, s, code)[code])>>

\* roomCodes.forEach: the registry and the events after all passes.
RECURSIVE forEachRoomCode(_, _, _)
forEachRoomCode(roomCodes, s, acc) ==
    IF roomCodes = <<>> THEN acc
    ELSE IF Head(roomCodes) \notin DOMAIN acc.rooms
         THEN forEachRoomCode(Tail(roomCodes), s, acc)
         ELSE forEachRoomCode(Tail(roomCodes), s,
                  [rooms |-> LeaveRoom(acc.rooms, s, Head(roomCodes)),
                   events |-> acc.events
                              \o LeaveEvents(acc.rooms, s, Head(roomCodes))])

\* The registry and the events after the disconnecting handler of s.
Disconnecting(rs, sr, s) ==
    forEachRoomCode(SelectSeq(sr[s], LAMBDA c : c \in DOMAIN rs), s,
                    [rooms |-> rs, events |-> <<>>])

Disconnect(s) ==
    /\ s \in connected
    /\ Used(s)
    /\ rooms' = Disconnecting(rooms, socketRooms, s).rooms
    /\ hist' = [c \in DOMAIN rooms' |-> hist[c]]
    /\ connected' = connected \ {s}
    /\ socketRooms' = [socketRooms EXCEPT ![s] = <<>>]
    /\ UNCHANGED <<generating, auto>>

(***************************************************************************)
(* The inputs of the model and the specification                           *)
(***************************************************************************)

\* A submitted cell with integer coordinates.
Cell(x, y, z) ==
    [x |-> Raw("number", x), y |-> Raw("number", y), z |-> Raw("number", z)]

Ship(name, cells) == [wellFormed |-> TRUE, name |-> name, cells |-> cells]

Fleet(ships) == [isArray |-> TRUE, ships |-> ships]

\* A legal fleet: Destroyer along x.
FleetA ==
    Fleet(<<Ship("Destroyer", <<Cell(0, 0, 0), Cell(1, 0, 0)>>),
            Ship("Submarine", <<Cell(0, 1, 0)>>)>>)

\* Another legal fleet: Submarine first, Destroyer along y.
FleetB ==
    Fleet(<<Ship("Submarine", <<Cell(1, 0, 0)>>),
            Ship("Destroyer", <<Cell(0, 1, 0), Cell(0, 0, 0)>>)>>)

\* The non-colinear fleet of the specification's scenario.
FleetBent ==
    Fleet(<<Ship("Destroyer", <<Cell(0, 0, 0), Cell(0, 1, 1)>>),
            Ship("Submarine", <<Cell(1, 1, 0)>>)>>)

\* The fleets submitted during matches.
GameFleets == {FleetA, FleetB, FleetBent}

\* The targets fired at during matches: the cells the two fleets occupy,
\* a cell both leave empty and one coordinate outside the board.
Targets ==
    {<<0, 0, 0>>, <<1, 0, 0>>, <<0, 1, 0>>, <<1, 1, 0>>, <<0, 0, BOARD_SIZE>>}

\* The match engine: rooms, placement, attacks and departures.
Next ==
    \/ \E s \in Sockets : CreateGame(s)
    \/ \E s \in Sockets, code \in CodeInputs : JoinGame(s, code)
    \/ \E s \in Sockets, code \in CodeInputs, sub \in GameFleets :
          PlaceShips(s, code, sub)
    \/ \E s \in Sockets, code \in CodeInputs, t \in Targets :
          Attack(s, code, t)
    \/ \E s \in Sockets, code \in CodeInputs, raw \in MalformedTargets :
          AttackMalformed(s, code, raw)
    \/ \E s \in Sockets : Disconnect(s)

Spec == Init /\ [][Next]_vars

\* The lobby: rooms, usernames, chat and departures, without matches.
NextLobby ==
    \/ \E s \in Sockets : CreateGame(s)
    \/ \E s \in Sockets, code \in CodeInputs : JoinGame(s, code)
    \/ \E s \in Sockets, code \in CodeInputs, u \in UsernameInputs :
          SetUsername(s, code, u)
    \/ \E s \in Sockets, code \in CodeInputs, m \in MessageInputs :
          ChatMessage(s, code, m)
    \/ \E s \in Sockets : Disconnect(s)

SpecLobby == Init /\ [][NextLobby]_vars

(***************************************************************************)
(* The validation alone: one seated player submits fleets of every shape   *)
(***************************************************************************)

\* A coordinate sent as something other than an integer.
RawCell(kind, v, y, z) ==
    [x |-> Raw(kind, v), y |-> Raw("number", y), z |-> Raw("number", z)]

\* A null entry of ship.cells: cell?.x, cell?.y and cell?.z are undefined.
NullCell ==
    [x |-> Raw("undefined", 0), y |-> Raw("undefined", 0),
     z |-> Raw("undefined", 0)]

\* The cells of a patch of three by two cells of the bottom layer.
GridCells == {Cell(x, y, 0) : x \in 0 .. 2, y \in 0 .. 1}

\* Every fleet of a two-cell Destroyer and a Submarine over GridCells, in
\* both orders: aligned, diagonal, gapped, repeated and overlapping ones.
PlaneFleets ==
    {Fleet(<<Ship("Destroyer", <<a, b>>), Ship("Submarine", <<c>>)>>) :
        a \in GridCells, b \in GridCells, c \in GridCells}
    \cup
    {Fleet(<<Ship("Submarine", <<c>>), Ship("Destroyer", <<a, b>>)>>) :
        a \in GridCells, b \in GridCells, c \in GridCells}

\* Cells at and beyond each face of the board, along the third axis, and
\* coordinates that are not integers: the string "0", 1/2, null, undefined.
OddCells ==
    {Cell(-1, 0, 0), Cell(BOARD_SIZE, 0, 0), Cell(0, -1, 0),
     Cell(0, BOARD_SIZE, 0), Cell(0, 0, -1), Cell(0, 0, BOARD_SIZE),
     Cell(0, 0, 1), Cell(0, 1, 1), Cell(1, 0, 1),
     RawCell("string", 0, 0, 0), RawCell("fraction", 0, 0, 0),
     RawCell("null", 0, 0, 0), RawCell("undefined", 0, 0, 0), NullCell}

\* Fleets with one odd cell, in the Destroyer or as the Submarine.
OddFleets ==
    {Fleet(<<Ship("Destroyer", <<c, d>>), Ship("Submarine", <<Cell(1, 1, 1)>>)>>) :
        c \in OddCells,
        d \in {Cell(0, 0, 0), Cell(1, 0, 0), Cell(BOARD_SIZE - 1, 0, 0)}}
    \cup
    {Fleet(<<Ship("Destroyer", <<Cell(1, 1, 0), Cell(2, 1, 0)>>),
             Ship("Submarine", <<c>>)>>) : c \in OddCells}

\* Submissions that are no list, have the wrong number of entries, an entry
\* that is no ship, a name outside the catalog, a name twice, or a ship of
\* the wrong length.
StructFleets ==
    LET D == Ship("Destroyer", <<Cell(0, 0, 0), Cell(1, 0, 0)>>)
        S == Ship("Submarine", <<Cell(0, 1, 0)>>)
    IN  {[isArray |-> FALSE, ships |-> <<>>],
         Fleet(<<>>), Fleet(<<D>>), Fleet(<<S>>),
         Fleet(<<D, S, Ship("Cruiser", <<Cell(2, 2, 2)>>)>>),
         Fleet(<<[wellFormed |-> FALSE, name |-> "Destroyer", cells |-> <<>>], S>>),
         Fleet(<<D, Ship("Cruiser", <<Cell(0, 1, 0)>>)>>),
         Fleet(<<D, Ship("Destroyer", <<Cell(0, 1, 0), Cell(1, 1, 0)>>)>>),
         Fleet(<<S, Ship("Submarine", <<Cell(1, 1, 0)>>)>>),
         Fleet(<<Ship("Destroyer", <<Cell(0, 0, 0)>>), S>>),
         Fleet(<<Ship("Destroyer", <<Cell(0, 0, 0), Cell(1, 0, 0), Cell(2, 0, 0)>>),
                 S>>),
         Fleet(<<D, Ship("Submarine", <<Cell(0, 1, 0), Cell(1, 1, 0)>>)>>)}

Submissions == PlaneFleets \cup OddFleets \cup StructFleets

\* The player whose submissions are validated, and the room it created.
ValidateSocket == "s1"

ValidateCode == CHOOSE code \in Codes : TRUE

\* The state after createGame by ValidateSocket.
InitValidate ==
    /\ rooms = RoomsSet([c \in {} |-> 0], ValidateCode,
                        recordChat(NewRoom(ValidateSocket, ValidateCode),
                                   RoomCreatedEntry))
    /\ socketRooms = [s \in Sockets |->
                         IF s = ValidateSocket THEN <<ValidateCode>> ELSE <<>>]
    /\ connected = Sockets
    /\ hist = RoomsSet([c \in {} |-> 0], ValidateCode,
                       [NoHist EXCEPT !.creator = ValidateSocket])
    /\ generating = NotGenerating
    /\ auto = NotPlacing

NextValidate ==
    \E sub \in Submissions : PlaceShips(ValidateSocket, ValidateCode, sub)

SpecValidate == InitValidate /\ [][NextValidate]_vars

(***************************************************************************)
(* The client's automatic placement (part_001:225-287, 665-679) against    *)
(* the server's validation                                                 *)
(***************************************************************************)

\* part_001:264 allows 400 attempts per ship; the model allows fewer, so
\* that the generator gives up on some runs.
AUTO_ATTEMPTS == 2

\* getShipCells(start, axis, length)
getShipCells(start, axis, length) ==
    [i \in 1 .. length |->
        [x |-> start.x + (IF axis = "x" THEN i - 1 ELSE 0),
         y |-> start.y + (IF axis = "y" THEN i - 1 ELSE 0),
         z |-> start.z + (IF axis = "z" THEN i - 1 ELSE 0)]]

\* toKey(cell)
toKey(cell) == coordKey(cell.x, cell.y, cell.z)

\* A faulty test: the cells already taken by earlier ships are not looked at.
cellsAreValidAnywhere(cells, occupiedSet) ==
    \A i \in 1 .. Len(cells) :
        /\ ~ (cells[i].x < 0 \/ cells[i].y < 0 \/ cells[i].z < 0)
        /\ ~ (cells[i].x >= BOARD_SIZE \/ cells[i].y >= BOARD_SIZE
                \/ cells[i].z >= BOARD_SIZE)

\* cellsAreValid(cells, occupied) with state.boardSize = BOARD_SIZE, the
\* size the server replied; the coordinates getShipCells builds are integers.
cellsAreValid(cells, occupiedSet) ==
    \A i \in 1 .. Len(cells) :
        /\ ~ (cells[i].x < 0 \/ cells[i].y < 0 \/ cells[i].z < 0)
        /\ ~ (cells[i].x >= BOARD_SIZE \/ cells[i].y >= BOARD_SIZE
                \/ cells[i].z >= BOARD_SIZE)
        /\ toKey(cells[i]) \notin occupiedSet

\* Math.max(size - ship.length + 1, 1)
axisSpan(length) ==
    IF BOARD_SIZE - length + 1 > 1 THEN BOARD_SIZE - length + 1 ELSE 1

\* The values of Math.floor(Math.random() * n).
RandomBelow(n) == 0 .. (n - 1)

axes == {"x", "y", "z"}

\* The generator after one pass of the while loop for the current ship,
\* with the axis and the start drawn in it.
AutoAfterAttempt(g, axis, start) ==
    LET ship == SHIPS[g.ship]
        cells == getShipCells(start, axis, ship.length)
    IN  IF ~ cellsAreValid(cells, g.occupied)
        THEN IF g.attempts + 1 < AUTO_ATTEMPTS
             THEN [g EXCEPT !.attempts = @ + 1]
             ELSE [g EXCEPT !.attempts = @ + 1, !.status = "null"]
        ELSE [status |-> IF g.ship = Len(SHIPS) THEN "done" ELSE "placing",
              ship |-> IF g.ship = Len(SHIPS) THEN g.ship ELSE g.ship + 1,
              attempts |-> IF g.ship = Len(SHIPS) THEN g.attempts + 1 ELSE 0,
              placements |-> Append(g.placements,
                                    [name |-> ship.name, cells |-> cells]),
              occupied |-> g.occupied
                             \cup {toKey(cells[i]) : i \in 1 .. Len(cells)}]

\* The player clicks Auto Place Fleet; the button is shown until a fleet is
\* locked in (part_001:327-329, 389-392).
BeginAuto ==
    /\ auto.status = "idle"
    /\ ValidateCode \in DOMAIN rooms
    /\ ~ rooms[ValidateCode].players[1].ready
    /\ auto' = IF Len(SHIPS) = 0 THEN [NotPlacing EXCEPT !.status = "null"]
               ELSE [NotPlacing EXCEPT !.status = "placing", !.ship = 1]
    /\ UNCHANGED <<rooms, socketRooms, connected, hist, generating>>

\* One pass of the while loop.
AutoAttempt(axis, start) ==
    /\ auto.status = "placing"
    /\ auto' = AutoAfterAttempt(auto, axis, start)
    /\ UNCHANGED <<rooms, socketRooms, connected, hist, generating>>

\* The fleet the client sends: the placements as they are, integers in
\* { x, y, z } objects.
AutoFleet(placements) ==
    Fleet([i \in 1 .. Len(placements) |->
              Ship(placements[i].name,
                   [j \in 1 .. Len(placements[i].cells) |->
                       Cell(placements[i].cells[j].x, placements[i].cells[j].y,
                            placements[i].cells[j].z)])])

\* The generator has returned: a fleet is locked in with placeShips, null
\* is reported to the player and nothing is sent.
AutoReturn ==
    /\ auto.status \in {"done", "null"}
    /\ auto' = NotPlacing
    /\ rooms' = IF auto.status = "done"
                THEN PlaceShipsRooms(rooms, ValidateSocket, ValidateCode,
                                     AutoFleet(auto.placements))
                ELSE rooms
    /\ UNCHANGED <<socketRooms, connected, hist, generating>>

NextAuto ==
    \/ BeginAuto
    \/ /\ auto.status = "placing"
       /\ \E axis \in axes :
         \E x \in RandomBelow(IF axis = "x" THEN axisSpan(SHIPS[auto.ship].length)
                              ELSE BOARD_SIZE),
            y \in RandomBelow(IF axis = "y" THEN axisSpan(SHIPS[auto.ship].length)
                              ELSE BOARD_SIZE),
            z \in RandomBelow(IF axis = "z" THEN axisSpan(SHIPS[auto.ship].length)
                              ELSE BOARD_SIZE) :
              AutoAttempt(axis, [x |-> x, y |-> y, z |-> z])
    \/ AutoReturn

SpecAuto == InitValidate /\ [][NextAuto]_vars

(***************************************************************************)
(* createGame with the loop of generateRoomCode step by step               *)
(* (server.js:105-113): draws over a small code space, as many rooms as    *)
(* there are codes.                                                        *)
(***************************************************************************)

\* The values Math.floor(Math.random() * 10^ROOM_CODE_LENGTH) takes here:
\* one that needs padding and the greatest.
RegistryDraws == {42, 999999}

\* A faulty loop condition: the drawn code is never compared with the
\* registry.
ResampleNever(rs, code) == FALSE

\* while (rooms.has(code)): the drawn code is taken, draw again.
Resample(rs, code) == code \in DOMAIN rs

\* The registry after one draw of the loop inside createGame of s.
DrawCodeRooms(rs, s, n) ==
    IF Resample(rs, FormatCode(n)) THEN rs
    ELSE CreateGameRooms(rs, s, FormatCode(n))

\* createGame is called and enters generateRoomCode.
BeginCreateGame(s) ==
    /\ s \in connected
    /\ NextInOrder(s)
    /\ generating = NotGenerating
    /\ generating' = [socket |-> s, code |-> <<>>]
    /\ UNCHANGED <<rooms, socketRooms, connected, hist, auto>>

\* One pass of the do-while loop: draw n; if its code is taken the loop
\* goes on, else generateRoomCode returns it and createGame runs to its
\* end.  Node runs nothing else until the handler returns.
DrawCode(n) ==
    /\ generating # NotGenerating
    /\ rooms' = DrawCodeRooms(rooms, generating.socket, n)
    /\ IF Resample(rooms, FormatCode(n))
       THEN /\ generating' = [generating EXCEPT !.code = FormatCode(n)]
            /\ UNCHANGED <<socketRooms, hist>>
       ELSE /\ generating' = NotGenerating
            /\ socketRooms' = SocketJoin(socketRooms, generating.socket,
                                         FormatCode(n))
            /\ hist' = RoomsSet(hist, FormatCode(n),
                                [NoHist EXCEPT !.creator = generating.socket])
    /\ UNCHANGED <<connected, auto>>

\* The codes clients send to this registry.
RegistryCodes == {FormatCode(n) : n \in RegistryDraws}

NextCodes ==
    \/ \E s \in Sockets : BeginCreateGame(s)
    \/ \E n \in RegistryDraws : DrawCode(n)
    \/ \E s \in Sockets, code \in RegistryCodes :
          generating = NotGenerating /\ JoinGame(s, code)
    \/ \E s \in Sockets : generating = NotGenerating /\ Disconnect(s)

\* Math.random() is fair: a value that can be drawn again and again is
\* drawn at last.
SpecCodes ==
    /\ Init
    /\ [][NextCodes]_vars
    /\ \A n \in RegistryDraws : SF_vars(DrawCode(n))

(***************************************************************************)
(* Attacks whose z is not a whole number (server.js:378-412)               *)
(***************************************************************************)

\* A target { x, y, z + 1/2 } is written <<x, y, z, 5>>, as is its key
\* "x:y:z.5".  The six comparisons of the bounds test treat z + 1/2 as they
\* treat z; the key is compared with hits and misses as any other;
\* board[x][y][z + 0.5] is undefined, so the shot is a miss.  A z that is a
\* string without numeric value or null behaves alike.
OffGridTargets == {<<0, 0, 0, 5>>, <<1, 0, 0, 5>>}

\* The error attack replies to a target off the grid, "none" when the attack
\* is accepted.
OffGridError(rs, s, code, target) ==
    IF code \notin DOMAIN rs THEN "Room not found."
    ELSE IF rs[code].turn # s THEN "Not your turn."
    ELSE IF getOpponent(rs[code], s) = 0 \/ getPlayer(rs[code], s) = 0
         THEN "Opponent not found."
    ELSE IF ~ InBounds(target[1], target[2], target[3]) THEN "Invalid target."
    ELSE IF LET player == rs[code].players[getPlayer(rs[code], s)]
            IN  target \in player.hits \/ target \in player.misses
         THEN "Coordinate already targeted."
    ELSE "none"

\* The outcome of an accepted attack off the grid: a miss; the win test
\* runs over the hits the attacker already has.
OffGridPayload(room, s, target) ==
    LET opponent == room.players[getOpponent(room, s)]
        player == room.players[getPlayer(room, s)]
        won == allShipsSunk(opponent.ships, player.hits)
    IN  [attacker |-> s, target |-> target, result |-> "miss",
         shipName |-> null,
         nextTurn |-> IF won THEN null ELSE opponent.id,
         winner |-> IF won THEN s ELSE null]

\* The registry after an attack off the grid.
OffGridRooms(rs, s, code, target) ==
    IF OffGridError(rs, s, code, target) # "none" THEN rs
    ELSE LET room == rs[code]
             pi == getPlayer(room, s)
             opponent == room.players[getOpponent(room, s)]
         IN  RoomsSet(rs, code,
                 [room EXCEPT
                     !.players[pi].misses = @ \cup {target},
                     !.turn = TurnAfterAttack(room,
                                  OffGridPayload(room, s, target), opponent)])

AttackOffGrid(s, code, target) ==
    /\ s \in connected
    /\ rooms' = OffGridRooms(rooms, s, code, target)
    /\ hist' = IF OffGridError(rooms, s, code, target) # "none" THEN hist
               ELSE [hist EXCEPT ![code] =
                        HistAfterAttack(@, OffGridPayload(rooms[code], s, target))]
    /\ UNCHANGED <<socketRooms, connected, generating, auto>>

\* A match of two players that has just started: s1 created the room, s2
\* joined, both placed FleetA.
StartedRooms ==
    PlaceShipsRooms(
        PlaceShipsRooms(
            JoinGameRooms(CreateGameRooms([c \in {} |-> 0], "s1", ValidateCode),
                          "s2", ValidateCode),
            "s1", ValidateCode, FleetA),
        "s2", ValidateCode, FleetA)

InitShots ==
    /\ rooms = StartedRooms
    /\ socketRooms = [s \in Sockets |->
                         IF s \in {"s1", "s2"} THEN <<ValidateCode>> ELSE <<>>]
    /\ connected = Sockets
    /\ hist = RoomsSet([c \in {} |-> 0], ValidateCode,
                       [NoHist EXCEPT !.creator = "s1", !.joins = 1])
    /\ generating = NotGenerating
    /\ auto = NotPlacing

NextShots ==
    \/ \E s \in Sockets, t \in Targets : Attack(s, ValidateCode, t)
    \/ \E s \in Sockets, t \in OffGridTargets : AttackOffGrid(s, ValidateCode, t)

SpecShots == InitShots /\ [][NextShots]_vars

(***************************************************************************)
(* Two rooms side by side (server.js:12, 156-463): one registry, every     *)
(* handler addressed to one code.                                          *)
(***************************************************************************)

\* The shots fired while two matches run: a cell of FleetA and an empty one.
RoomsTargets == {<<0, 0, 0>>, <<1, 1, 0>>}

\* s1 has called createGame twice and holds a seat in both rooms.
TwoRooms ==
    CreateGameRooms(CreateGameRooms([c \in {} |-> 0], "s1", FormatCode(42)),
                    "s1", FormatCode(999999))

InitRooms ==
    /\ rooms = TwoRooms
    /\ socketRooms = [s \in Sockets |->
                         IF s = "s1" THEN <<FormatCode(42), FormatCode(999999)>>
                         ELSE <<>>]
    /\ connected = Sockets
    /\ hist = [c \in RegistryCodes |-> [NoHist EXCEPT !.creator = "s1"]]
    /\ generating = NotGenerating
    /\ auto = NotPlacing

NextRooms ==
    \/ \E s \in Sockets, code \in RegistryCodes : JoinGame(s, code)
    \/ \E s \in Sockets, code \in RegistryCodes : PlaceShips(s, code, FleetA)
    \/ \E s \in Sockets, code \in RegistryCodes, t \in RoomsTargets :
          Attack(s, code, t)

SpecRooms == InitRooms /\ [][NextRooms]_vars

(***************************************************************************)
(* A match whose players place again (server.js:233-436): placeShips does  *)
(* not look at ready or turn, so fleets move while shots are on record.    *)
(***************************************************************************)

\* A legal fleet on other cells than FleetA: it covers <<1, 1, 0>>, which
\* FleetA leaves empty, and leaves <<1, 0, 0>> empty.
FleetC ==
    Fleet(<<Ship("Destroyer", <<Cell(0, 1, 0), Cell(1, 1, 0)>>),
            Ship("Submarine", <<Cell(0, 0, 0)>>)>>)

RematchFleets == {FleetA, FleetC}

NextRematch ==
    \/ \E s \in Sockets, t \in Targets : Attack(s, ValidateCode, t)
    \/ \E s \in Sockets, sub \in RematchFleets : PlaceShips(s, ValidateCode, sub)

SpecRematch == InitShots /\ [][NextRematch]_vars

(***************************************************************************)
(* The client's view of the turn (app.js:733-837)                          *)
(***************************************************************************)

\* state.phase and state.myTurn of a client, in every combination.
ClientStates ==
    [phase : {"menu", "placement", "waiting", "playing", "finished"},
     myTurn : BOOLEAN]

\* The client state after the listener of one broadcast has run; id is
\* state.playerId.  Listeners of other broadcasts leave phase and myTurn.
Deliver(cs, id, event) ==
    IF event.type = "gameStarted"
    THEN [phase |-> "playing", myTurn |-> event.data.turn = id]
    ELSE IF event.type = "attackResult"
    THEN IF event.data.winner # null
         THEN [phase |-> "finished", myTurn |-> FALSE]
         ELSE [cs EXCEPT !.myTurn = event.data.nextTurn = id]
    ELSE IF event.type = "playerLeft"
    THEN [phase |-> "finished", myTurn |-> FALSE]
    ELSE IF event.type = "roomState"
    THEN IF cs.phase = "playing" /\ event.data.turn # null
         THEN [cs EXCEPT !.myTurn = event.data.turn = id]
         ELSE cs
    ELSE cs

\* The client state after the broadcasts of events have been delivered in
\* order.
RECURSIVE DeliverAll(_, _, _)
DeliverAll(cs, id, events) ==
    IF events = <<>> THEN cs
    ELSE DeliverAll(Deliver(cs, id, Head(events)), id, Tail(events))

(***************************************************************************)
(* Properties                                                              *)
(***************************************************************************)

\* The identities seated in a room.
Seated(room) == {room.players[i].id : i \in 1 .. Len(room.players)}

\* The coordinates a player has fired at.
Shots(player) == player.hits \cup player.misses

\* Every cell of every ship of a fleet.
AllCells(ships) == UNION {Range(ships[i].cells) : i \in 1 .. Len(ships)}

\* The cells of a board that hold the ship of this name.
CellsOf(board, name) == {c \in Cells : board[c] = name}

\* The attack of s at target in the room of this code is accepted.
Accepted(s, code, target) == AttackError(rooms, s, code, target) = "none"

\* The room, the attacker and the opponent after an accepted attack.
RoomAfter(s, code, target) == AttackRooms(rooms, s, code, target)[code]

AttackerAfter(s, code, target) ==
    RoomAfter(s, code, target).players[getPlayer(rooms[code], s)]

OpponentOf(s, code) == rooms[code].players[getOpponent(rooms[code], s)]

\* C1. Once an attack outcome has declared a winner in a room, every later
\* attack request in that room, by any identity at any coordinate, is
\* rejected with an error and records no coordinate.  Stated for the plain
\* match: two different players who both placed a fleet, nobody having
\* disconnected.
C1_NoAttackAfterWinner ==
    \A code \in DOMAIN rooms :
        (/\ hist[code].winner # null
         /\ connected = Sockets
         /\ Len(rooms[code].players) = 2
         /\ rooms[code].players[1].id # rooms[code].players[2].id
         /\ \A i \in 1 .. 2 : rooms[code].players[i].ships # <<>>)
        => \A s \in Sockets, t \in Targets :
              /\ AttackError(rooms, s, code, t) # "none"
              /\ AttackRooms(rooms, s, code, t) = rooms

\* C2. Turns alternate strictly: the player of the last accepted attack of
\* a room never has the next accepted attack of that room.
C2_TurnsAlternate ==
    \A code \in DOMAIN rooms :
        \A s \in Sockets, t \in Targets :
            Accepted(s, code, t) => hist[code].lastAttacker # s

\* C3. In every live room the turn is null or the identity of a seated
\* player, and after the disconnect of any socket no surviving room has the
\* departed socket as its turn.
C3_TurnIsSeated ==
    /\ \A code \in DOMAIN rooms :
          rooms[code].turn = null \/ rooms[code].turn \in Seated(rooms[code])
    /\ \A s \in connected :
          LET after == Disconnecting(rooms, socketRooms, s).rooms
          IN  \A code \in DOMAIN after :
                 /\ after[code].turn # s
                 /\ after[code].turn = null
                    \/ after[code].turn \in Seated(after[code])

\* A player is alone in a room whose match had started, after the other
\* seat disconnected, and holds the turn.
C3_Witness ==
    \E code \in DOMAIN rooms :
        /\ Len(rooms[code].players) = 1
        /\ rooms[code].turn = rooms[code].players[1].id
        /\ connected # Sockets

\* C4. An attack is accepted only if the requester is room.turn; a request
\* of any other identity for a live room, the other seat or a non-member,
\* is answered 'Not your turn.' and leaves the room as it was.
C4_OnlyTurnHolderAttacks ==
    \A code \in CodeInputs, s \in Sockets, t \in Targets :
        /\ Accepted(s, code, t) =>
              code \in DOMAIN rooms /\ rooms[code].turn = s
        /\ (code \in DOMAIN rooms /\ rooms[code].turn # s) =>
              /\ AttackError(rooms, s, code, t) = "Not your turn."
              /\ AttackRooms(rooms, s, code, t) = rooms

\* A started match with shots fired, a seated player who does not hold the
\* turn and a connected socket that is not seated.
C4_Witness ==
    \E code \in DOMAIN rooms :
        LET room == rooms[code]
        IN  /\ Len(room.players) = 2
            /\ room.turn \in Seated(room)
            /\ Seated(room) \ {room.turn} # {}
            /\ connected \ Seated(room) # {}
            /\ \E i \in 1 .. 2 : Shots(room.players[i]) # {}

\* C5 as stated. Every later attack of a player at a coordinate the player
\* has fired at is answered 'Coordinate already targeted.'.
C5_RepeatIsAlreadyTargeted ==
    \A code \in DOMAIN rooms :
        \A s \in Seated(rooms[code]) :
            \A c \in Shots(rooms[code].players[getPlayer(rooms[code], s)]) :
                AttackError(rooms, s, code, c) = "Coordinate already targeted."

\* C5. Every later attack of a player at a coordinate the player has fired
\* at is rejected and changes nothing: with 'Coordinate already targeted.'
\* when the player holds the turn and faces an opponent, with 'Not your
\* turn.' or 'Opponent not found.' otherwise.  No coordinate is recorded
\* both as a hit and as a miss.
C5_RepeatIsRejected ==
    \A code \in DOMAIN rooms :
        \A s \in Seated(rooms[code]) :
            LET room == rooms[code]
                player == room.players[getPlayer(room, s)]
            IN  /\ player.hits \cap player.misses = {}
                /\ \A c \in Shots(player) :
                      /\ AttackRooms(rooms, s, code, c) = rooms
                      /\ AttackError(rooms, s, code, c) =
                            IF room.turn # s THEN "Not your turn."
                            ELSE IF Len(room.players) < 2
                                 THEN "Opponent not found."
                                 ELSE "Coordinate already targeted."

\* A player holds the turn, faces an opponent and has both a hit that sank
\* a ship and a miss on record.
C5_Witness ==
    \E code \in DOMAIN rooms :
        LET room == rooms[code]
        IN  /\ Len(room.players) = 2
            /\ \E i \in 1 .. 2 :
                  /\ room.turn = room.players[i].id
                  /\ room.players[i].misses # {}
                  /\ \E n \in ShipNames :
                        /\ CellsOf(room.players[3 - i].board, n) # {}
                        /\ CellsOf(room.players[3 - i].board, n)
                              \subseteq room.players[i].hits

\* C6. An accepted attack reports a winner if and only if, after the shot
\* is recorded, the attacker's hits contain every cell of every ship of the
\* opponent (an opponent who has placed no ship has no cell left to hit).
C6_WinnerIffFleetHit ==
    \A code \in DOMAIN rooms, s \in Sockets, t \in Targets :
        Accepted(s, code, t) =>
            ((AttackPayload(rooms[code], s, t).winner # null)
                <=> (AllCells(OpponentOf(s, code).ships)
                        \subseteq AttackerAfter(s, code, t).hits))

\* A winner was declared against a placed fleet: the winner's hits cover
\* the opponent's ships, and the opponent has ships.
C6_Witness ==
    \E code \in DOMAIN rooms :
        LET room == rooms[code]
        IN  /\ hist[code].winner # null
            /\ Len(room.players) = 2
            /\ \E i \in 1 .. 2 :
                  /\ room.players[i].id = hist[code].winner
                  /\ room.players[3 - i].ships # <<>>
                  /\ AllCells(room.players[3 - i].ships)
                        \subseteq room.players[i].hits

\* C7. An accepted attack at an empty cell of the opponent's board adds the
\* coordinate to the attacker's misses and reports miss without a ship
\* name; at a cell holding a ship name it adds the coordinate to the
\* attacker's hits and reports that name with hit, or with sunk exactly
\* when every cell of that ship is now among the attacker's hits.
C7_ShotResolution ==
    \A code \in DOMAIN rooms, s \in Sockets, t \in Targets :
        Accepted(s, code, t) =>
            LET before == rooms[code].players[getPlayer(rooms[code], s)]
                after == AttackerAfter(s, code, t)
                board == OpponentOf(s, code).board
                payload == AttackPayload(rooms[code], s, t)
            IN  IF board[t] = null
                THEN /\ after.misses = before.misses \cup {t}
                     /\ after.hits = before.hits
                     /\ payload.result = "miss"
                     /\ payload.shipName = null
                ELSE /\ after.hits = before.hits \cup {t}
                     /\ after.misses = before.misses
                     /\ payload.shipName = board[t]
                     /\ payload.result \in {"hit", "sunk"}
                     /\ payload.result = "sunk"
                           <=> CellsOf(board, board[t]) \subseteq after.hits

\* A player has sunk one ship of the opponent and hit another without
\* sinking it, and has missed once.
C7_Witness ==
    \E code \in DOMAIN rooms :
        LET room == rooms[code]
        IN  /\ Len(room.players) = 2
            /\ \E i \in 1 .. 2 : \E n, m \in ShipNames :
                  LET board == room.players[3 - i].board
                      hits == room.players[i].hits
                  IN  /\ CellsOf(board, n) # {}
                      /\ CellsOf(board, n) \subseteq hits
                      /\ CellsOf(board, m) \cap hits # {}
                      /\ ~ (CellsOf(board, m) \subseteq hits)
                      /\ room.players[i].misses # {}

\* C8. The outcome of an accepted attack that wins names the attacker as
\* winner and no next turn; the outcome of any other accepted attack names
\* no winner and the opponent as next turn, and room.turn is the opponent
\* right after the attack.
C8_OutcomeAndTurn ==
    \A code \in DOMAIN rooms, s \in Sockets, t \in Targets :
        Accepted(s, code, t) =>
            LET payload == AttackPayload(rooms[code], s, t)
                opponent == OpponentOf(s, code)
            IN  IF AllCells(opponent.ships) \subseteq AttackerAfter(s, code, t).hits
                THEN /\ payload.winner = s
                     /\ payload.nextTurn = null
                ELSE /\ payload.winner = null
                     /\ payload.nextTurn = opponent.id
                     /\ RoomAfter(s, code, t).turn = opponent.id

\* The last accepted attack of a room won nothing and the turn is with the
\* other seat.
C8_Witness ==
    \E code \in DOMAIN rooms :
        LET room == rooms[code]
        IN  /\ hist[code].winner = null
            /\ hist[code].lastAttacker \in Seated(room)
            /\ room.turn \in Seated(room) \ {hist[code].lastAttacker}

\* A coordinate that is an integer of the board axis.
IsIntegerCoord(raw) == raw.kind = "number" /\ raw.v \in Axis

\* A coordinate that Number() converts to an integer of the board axis: an
\* integer, a numeric string, or null (which converts to 0).
ConvertsToCoord(raw) ==
    \/ raw.kind \in {"number", "string"} /\ raw.v \in Axis
    \/ raw.kind = "null"

\* The point a submitted cell stands for.
PointOf(cell) ==
    LET value(raw) == IF raw.kind = "null" THEN 0 ELSE raw.v
    IN  <<value(cell.x), value(cell.y), value(cell.z)>>

PointsOf(ship) == {PointOf(ship.cells[j]) : j \in 1 .. Len(ship.cells)}

\* The submission is a list of ships.
IsFleetList(sub) ==
    sub.isArray /\ \A i \in 1 .. Len(sub.ships) : sub.ships[i].wellFormed

\* Exactly one entry per catalog ship name.
OnePerName(sub) ==
    /\ Len(sub.ships) = Len(SHIPS)
    /\ \A n \in ShipNames :
          Cardinality({i \in 1 .. Len(sub.ships) : sub.ships[i].name = n}) = 1

\* Every ship has exactly its catalog length.
CatalogLengths(sub) ==
    \A i \in 1 .. Len(sub.ships), k \in 1 .. Len(SHIPS) :
        SHIPS[k].name = sub.ships[i].name =>
            Len(sub.ships[i].cells) = SHIPS[k].length

\* Every coordinate of every cell satisfies Ok.
CoordsOk(sub, Ok(_)) ==
    \A i \in 1 .. Len(sub.ships) :
        \A j \in 1 .. Len(sub.ships[i].cells) :
            LET cell == sub.ships[i].cells[j]
            IN  Ok(cell.x) /\ Ok(cell.y) /\ Ok(cell.z)

\* The cells of every ship are distinct, constant on two axes and take
\* consecutive values on the third.
StraightRuns(sub) ==
    \A i \in 1 .. Len(sub.ships) :
        LET ship == sub.ships[i]
            n == Len(ship.cells)
        IN  \E a \in 1 .. 3 :
               /\ \A b \in (1 .. 3) \ {a} :
                     Cardinality({p[b] : p \in PointsOf(ship)}) <= 1
               /\ Cardinality({p[a] : p \in PointsOf(ship)}) = n
               /\ \A p, q \in PointsOf(ship) : p[a] - q[a] < n

\* No cell is claimed by two ships.
NoSharedCell(sub) ==
    \A i, j \in 1 .. Len(sub.ships) :
        i # j => PointsOf(sub.ships[i]) \cap PointsOf(sub.ships[j]) = {}

\* The fleet the claim describes, for a reading Ok of "is a coordinate".
WellPlaced(sub, Ok(_)) ==
    /\ IsFleetList(sub)
    /\ OnePerName(sub)
    /\ CatalogLengths(sub)
    /\ CoordsOk(sub, Ok)
    /\ StraightRuns(sub)
    /\ NoSharedCell(sub)

\* placeShips of the seated player accepts the submission.
Accepts(sub) ==
    PlaceShipsError(rooms, ValidateSocket, ValidateCode, sub) = "none"

\* After placeShips the player is ready and its ships and board hold
\* exactly the points of the submission.
Stores(sub) ==
    LET player == PlaceShipsRooms(rooms, ValidateSocket, ValidateCode, sub)
                     [ValidateCode].players[1]
    IN  /\ player.ready
        /\ Len(player.ships) = Len(sub.ships)
        /\ \A i \in 1 .. Len(sub.ships) :
              /\ player.ships[i].name = sub.ships[i].name
              /\ Range(player.ships[i].cells) = PointsOf(sub.ships[i])
              /\ CellsOf(player.board, sub.ships[i].name)
                    = PointsOf(sub.ships[i])

\* C9 as stated. placeShips accepts a submission if and only if it is a
\* well placed fleet whose coordinates are integers in [0, BOARD_SIZE).
C9_AcceptsIffIntegerFleet ==
    \A sub \in Submissions : Accepts(sub) <=> WellPlaced(sub, IsIntegerCoord)

\* C9. placeShips accepts a submission if and only if it has exactly one
\* entry per catalog ship name, every ship has its catalog length, every
\* coordinate converts under Number() to an integer in [0, BOARD_SIZE),
\* every ship's cells are a straight consecutive run along one axis, and no
\* cell is claimed by two ships; it then stores exactly those cells.
C9_AcceptsIffWellPlaced ==
    \A sub \in Submissions :
        /\ Accepts(sub) <=> WellPlaced(sub, ConvertsToCoord)
        /\ Accepts(sub) => Stores(sub)

\* The clauses of the claim, numbered.
ClauseHolds(k, sub) ==
    CASE k = 1 -> OnePerName(sub)
      [] k = 2 -> CatalogLengths(sub)
      [] k = 3 -> CoordsOk(sub, ConvertsToCoord)
      [] k = 4 -> StraightRuns(sub)
      [] k = 5 -> NoSharedCell(sub)

\* A fleet was stored, a fleet with a coordinate that is no integer would
\* be stored, and each clause is the only one violated by some submission,
\* which is rejected.
C9_Witness ==
    /\ rooms[ValidateCode].players[1].ready
    /\ \E sub \in Submissions :
          Accepts(sub) /\ Stores(sub) /\ ~ CoordsOk(sub, IsIntegerCoord)
    /\ \A k \in 1 .. 5 :
          \E sub \in Submissions :
              /\ IsFleetList(sub)
              /\ \A j \in 1 .. 5 : ClauseHolds(j, sub) <=> (j # k)
              /\ ~ Accepts(sub)

\* One submission for every reason of rejection the validation has.
RejectedFleets ==
    LET D == Ship("Destroyer", <<Cell(0, 0, 0), Cell(1, 0, 0)>>)
        S == Ship("Submarine", <<Cell(0, 1, 0)>>)
    IN  {[isArray |-> FALSE, ships |-> <<>>],
         Fleet(<<D>>),
         Fleet(<<[wellFormed |-> FALSE, name |-> "Destroyer", cells |-> <<>>], S>>),
         Fleet(<<D, Ship("Cruiser", <<Cell(0, 1, 0)>>)>>),
         Fleet(<<D, Ship("Destroyer", <<Cell(0, 1, 0), Cell(1, 1, 0)>>)>>),
         Fleet(<<Ship("Destroyer", <<Cell(0, 0, 0)>>), S>>),
         Fleet(<<D, Ship("Submarine", <<RawCell("fraction", 0, 1, 0)>>)>>),
         Fleet(<<D, Ship("Submarine", <<Cell(0, BOARD_SIZE, 0)>>)>>),
         FleetBent,
         Fleet(<<Ship("Destroyer", <<Cell(0, 0, 0), Cell(2, 0, 0)>>), S>>),
         Fleet(<<D, Ship("Submarine", <<Cell(1, 0, 0)>>)>>)}

\* The errors placeShips can reply.
PlaceShipsErrors ==
    {"Room not found.", "Player not part of room.",
     "Invalid ship data submitted.",
     "All ships must be placed before locking in.",
     "Invalid ship configuration", "Unexpected ship provided.",
     "Duplicate ship entries are not allowed.",
     "must occupy exactly the required cells.",
     "Ship coordinates must be whole numbers.", "Ship out of bounds",
     "Ships must be placed in a straight line.",
     "Ships must occupy consecutive cells.", "Ships cannot overlap"}

\* C10. When placeShips is rejected, for whatever reason, the registry is
\* what it was before the call: the caller's board, ships and ready flag
\* and the room's turn are unchanged.
C10_RejectedPlacementChangesNothing ==
    \A s \in Sockets, code \in CodeInputs :
        \A sub \in RejectedFleets \cup GameFleets :
            PlaceShipsError(rooms, s, code, sub) # "none" =>
                PlaceShipsRooms(rooms, s, code, sub) = rooms

\* A match has started and shots were fired; the requests of a seated
\* ready player, of a socket that is not seated and for an unknown room
\* meet every error placeShips can reply.
C10_Witness ==
    \E code \in DOMAIN rooms :
        LET room == rooms[code]
        IN  /\ room.turn # null
            /\ Len(room.players) = 2
            /\ \A i \in 1 .. 2 : room.players[i].ready
            /\ \E i \in 1 .. 2 : Shots(room.players[i]) # {}
            /\ {PlaceShipsError(rooms, s, c, sub) :
                   s \in Sockets, c \in CodeInputs,
                   sub \in RejectedFleets \cup GameFleets}
                  = PlaceShipsErrors \cup {"none"}

\* The events of this type among the broadcasts.
OfType(events, type) ==
    {k \in 1 .. Len(events) : events[k].type = type}

\* Every accepted placeShips in the room that leaves two ready players
\* sets the turn to starter and broadcasts gameStarted with it; every other
\* accepted placeShips leaves the turn alone and broadcasts playerReady.
PlacementStarts(code, starter) ==
    \A s \in Sockets, sub \in GameFleets :
        PlaceShipsError(rooms, s, code, sub) = "none" =>
            LET post == PlaceShipsRooms(rooms, s, code, sub)[code]
                events == PlaceShipsEvents(rooms, s, code, sub)
            IN  IF /\ Len(post.players) = 2
                   /\ \A i \in 1 .. 2 : post.players[i].ready
                THEN /\ post.turn = starter
                     /\ OfType(events, "gameStarted") # {}
                     /\ \A k \in OfType(events, "gameStarted") :
                           events[k].data.turn = starter
                     /\ OfType(events, "playerReady") = {}
                ELSE /\ post.turn = rooms[code].turn
                     /\ OfType(events, "playerReady") # {}
                     /\ OfType(events, "gameStarted") = {}

C12_AttackOnlyInProgress ==
    \A code \in DOMAIN rooms :
        (/\ Cardinality(Seated(rooms[code])) = Len(rooms[code].players)
         /\ \/ Len(rooms[code].players) < 2
            \/ \E i \in 1 .. Len(rooms[code].players) :
                  ~ rooms[code].players[i].ready)
        => \A s \in Sockets, t \in Targets :
              /\ AttackError(rooms, s, code, t) # "none"
              /\ AttackRooms(rooms, s, code, t) = rooms

\* C13. Every live room has at most two players.  joinGame for an unknown
\* code replies 'Room not found.', for a room with two players 'Room is
\* full.', and both leave the registry and the caller's rooms as they
\* were; an accepted joinGame appends exactly one player to the room, not
\* ready, with an empty board and no ships, hits or misses.
C13_JoinGame ==
    /\ \A code \in DOMAIN rooms : Len(rooms[code].players) <= 2
    /\ \A s \in Sockets, code \in CodeInputs :
          LET after == JoinGameRooms(rooms, s, code)
          IN  IF code \notin DOMAIN rooms
              THEN /\ JoinGameError(rooms, s, code) = "Room not found."
                   /\ after = rooms
              ELSE IF Len(rooms[code].players) >= 2
              THEN /\ JoinGameError(rooms, s, code) = "Room is full."
                   /\ after = rooms
              ELSE /\ JoinGameError(rooms, s, code) = "none"
                   /\ Len(after[code].players) = Len(rooms[code].players) + 1
                   /\ \A i \in 1 .. Len(rooms[code].players) :
                         after[code].players[i] = rooms[code].players[i]
                   /\ LET new == after[code].players[Len(after[code].players)]
                      IN  /\ new.id = s
                          /\ ~ new.ready
                          /\ \A c \in Cells : new.board[c] = null
                          /\ new.ships = <<>>
                          /\ new.hits = {} /\ new.misses = {}
                   /\ after[code].turn = rooms[code].turn

\* A socket has taken the second seat of a room whose first player has
\* placed a fleet and fired; the newcomer is not ready and has no ships
\* and no shots, and another connected socket would find the room full.
C13_Witness ==
    \E code \in DOMAIN rooms :
        LET room == rooms[code]
        IN  /\ Len(room.players) = 2
            /\ room.players[1].ready
            /\ Shots(room.players[1]) # {}
            /\ ~ room.players[2].ready
            /\ room.players[2].ships = <<>>
            /\ Shots(room.players[2]) = {}
            /\ \E s \in connected \ Seated(room) :
                  JoinGameError(rooms, s, code) = "Room is full."

\* A room code as the spec describes it: six characters, each a digit.
SixDigits(code) ==
    /\ Len(code) = 6
    /\ \A i \in 1 .. 6 : code[i] \in 0 .. 9

\* C14: every live room is filed under a six-digit code that is its own
\* code, no two live rooms share a code, and a draw of createGame's loop
\* either leaves the registry as it is (the code is taken) or adds one room
\* under a code that was free, with every earlier room untouched.
C14_CodesSixDigitsUnique ==
    /\ \A c \in DOMAIN rooms : SixDigits(c) /\ rooms[c].code = c
    /\ \A c, d \in DOMAIN rooms : c # d => rooms[c].code # rooms[d].code
    /\ generating # NotGenerating =>
         \A n \in RegistryDraws :
           LET after == DrawCodeRooms(rooms, generating.socket, n)
           IN  /\ \A c \in DOMAIN rooms : c \in DOMAIN after /\ after[c] = rooms[c]
               /\ DOMAIN after \ DOMAIN rooms \subseteq {FormatCode(n)}
               /\ FormatCode(n) \in DOMAIN after
               /\ after[FormatCode(n)].code = FormatCode(n)

\* A room is live under the padded code 000042, a second createGame has
\* just drawn that code again and is drawing once more.
C14_Witness ==
    /\ FormatCode(42) \in DOMAIN rooms
    /\ generating.socket # null
    /\ generating.code = FormatCode(42)

\* C20: a createGame that has entered the code-generation loop leaves it:
\* the loop ends, returns a code and the call completes.
C20_CreateGameReturns ==
    (generating # NotGenerating) ~> (generating = NotGenerating)

\* C15: no live room is without players; the disconnect of a socket deletes
\* a room exactly when that socket held every seat of it (the creator alone
\* included), a room that stays keeps a player, and the code of a deleted
\* room is answered with 'Room not found.' to whoever joins with it.
C15_RoomGoesWithLastPlayer ==
    /\ \A c \in DOMAIN rooms : Len(rooms[c].players) >= 1
    /\ \A s \in connected : \A c \in DOMAIN rooms :
         LET after == Disconnecting(rooms, socketRooms, s).rooms
         IN  /\ (c \notin DOMAIN after) <=> (Seated(rooms[c]) = {s})
             /\ c \in DOMAIN after => Len(after[c].players) >= 1
             /\ c \notin DOMAIN after =>
                  \A t \in Sockets : JoinGameError(after, t, c) = "Room not found."

\* The creator has left before anyone joined: the first socket is gone, the
\* others never entered a room, the registry is empty again and the code
\* is unknown.
C15_Witness ==
    /\ connected = {"s2", "s3"}
    /\ rooms = <<>>
    /\ \A s \in Sockets : socketRooms[s] = <<>>
    /\ JoinGameError(rooms, "s2", FormatCode(42)) = "Room not found."

\* The system entry that says name has left.
Farewell(name) ==
    [id |-> "system", username |-> "System",
     message |-> <<name, " left the battle.">>, kind |-> "system"]

\* C16: when the player holding the turn disconnects from a room in which
\* one opponent remains, whatever username the player had set before, then
\* afterwards the room is live, its turn is the opponent's, its roster is
\* the opponent alone, unchanged, and its chat log is the earlier log with
\* one system entry appended (the oldest entries dropped beyond the cap)
\* that names the departed player, or 'A commander' when no username is
\* set.
C16_TurnHolderLeaves ==
    \A code \in DOMAIN rooms : \A s \in connected : \A u \in UsernameInputs :
      (/\ rooms[code].turn = s
       /\ Len(rooms[code].players) = 2
       /\ s \in Seated(rooms[code])
       /\ Seated(rooms[code]) # {s}) =>
        LET named == SetUsernameRooms(rooms, s, code, u)
            before == named[code]
            after == Disconnecting(named, socketRooms, s).rooms
            o == CHOOSE i \in 1 .. 2 : before.players[i].id # s
            name == IF u.isString /\ u.trimmed # "" THEN u.trimmed
                    ELSE "A commander"
        IN  /\ code \in DOMAIN after
            /\ after[code].turn = before.players[o].id
            /\ after[code].players = <<before.players[o]>>
            /\ s \notin Seated(after[code])
            /\ LET log == after[code].chat
                   kept == Len(log) - 1
               IN  /\ Len(log) >= 1
                   /\ log[Len(log)] = Farewell(name)
                   /\ Len(log) = IF Len(before.chat) < MAX_CHAT_MESSAGES
                                 THEN Len(before.chat) + 1
                                 ELSE MAX_CHAT_MESSAGES
                   /\ \A i \in 1 .. kept :
                        log[i] = before.chat[Len(before.chat) - kept + i]

\* The first seat held the turn of a match in which no shot was fired and
\* has left: the second seat is alone, holds the turn, and the log ends with
\* the farewell to 'A commander'.
C16_Witness ==
    \E code \in DOMAIN rooms :
        /\ connected = {"s2", "s3"}
        /\ socketRooms["s3"] = <<>>
        /\ Len(rooms[code].players) = 1
        /\ rooms[code].players[1].id = "s2"
        /\ rooms[code].players[1].ready
        /\ rooms[code].turn = "s2"
        /\ hist[code].lastAttacker = null
        /\ rooms[code].chat[Len(rooms[code].chat)] = Farewell("A commander")

\* C17: a joinGame, placeShips, attack or chatMessage request that is
\* replied with an error broadcasts no event and leaves the registry, hence
\* every room, as it was.
C17_RejectedIsSilent ==
    \A s \in Sockets, code \in CodeInputs :
        /\ JoinGameError(rooms, s, code) # "none" =>
             /\ JoinGameEvents(rooms, s, code) = <<>>
             /\ JoinGameRooms(rooms, s, code) = rooms
        /\ \A sub \in RejectedFleets \cup GameFleets :
             PlaceShipsError(rooms, s, code, sub) # "none" =>
               /\ PlaceShipsEvents(rooms, s, code, sub) = <<>>
               /\ PlaceShipsRooms(rooms, s, code, sub) = rooms
        /\ \A t \in Targets :
             AttackError(rooms, s, code, t) # "none" =>
               /\ AttackEvents(rooms, s, code, t) = <<>>
               /\ AttackRooms(rooms, s, code, t) = rooms
        /\ \A m \in MessageInputs :
             ChatMessageError(rooms, s, code, m) # "none" =>
               /\ ChatMessageEvents(rooms, s, code, m) = <<>>
               /\ ChatMessageRooms(rooms, s, code, m) = rooms

\* A match has started, a shot was fired and a third socket is connected
\* outside the room: joinGame meets both of its errors, chatMessage all
\* five of its own, attack four and placeShips every one it can reply.
C17_Witness ==
    \E code \in DOMAIN rooms :
        /\ rooms[code].turn # null
        /\ Len(rooms[code].players) = 2
        /\ \E i \in 1 .. 2 : Shots(rooms[code].players[i]) # {}
        /\ \E s \in connected : s \notin Seated(rooms[code])
        /\ {JoinGameError(rooms, s, c) : s \in Sockets, c \in CodeInputs}
              = {"Room not found.", "Room is full."}
        /\ {"Room not found.", "Not your turn.", "Invalid target.",
            "Coordinate already targeted."}
              \subseteq {AttackError(rooms, s, c, t) :
                            s \in Sockets, c \in CodeInputs, t \in Targets}
        /\ {ChatMessageError(rooms, s, c, m) :
               s \in Sockets, c \in CodeInputs, m \in MessageInputs}
              = {"none", "Room not found.", "Player not part of room.",
                 "Chat message must be text.",
                 "Chat messages must contain visible characters.",
                 "Chat messages must be 200 characters or fewer."}
        /\ PlaceShipsErrors \subseteq
              {PlaceShipsError(rooms, s, c, sub) :
                  s \in Sockets, c \in CodeInputs,
                  sub \in RejectedFleets \cup GameFleets}

\* C18: each request is handled as one step, so two requests racing on a
\* room end as one of their two orders.  Of two joinGame requests for the
\* last free seat, in either order, the first succeeds and the second is
\* answered 'Room is full.'; of two attack requests of the turn holder in a
\* match of two players with fleets, at most one is accepted: once the
\* first is, the second is rejected.
C18_RacesAreSequential ==
    \A code \in DOMAIN rooms :
        /\ Len(rooms[code].players) = 1 =>
             \A a, b \in Sockets :
                 /\ JoinGameError(rooms, a, code) = "none"
                 /\ JoinGameError(JoinGameRooms(rooms, a, code), b, code)
                       = "Room is full."
        /\ (/\ Len(rooms[code].players) = 2
            /\ rooms[code].players[1].id # rooms[code].players[2].id
            /\ \A i \in 1 .. 2 : rooms[code].players[i].ships # <<>>
            /\ connected = Sockets
            /\ hist[code].winner = null) =>
             \A s \in Sockets : \A t1, t2 \in Targets :
                 Accepted(s, code, t1) =>
                     AttackError(AttackRooms(rooms, s, code, t1), s, code, t2)
                        # "none"

\* An accepted attack of s at t in the room is fully applied and changes
\* nothing else: the coordinate is new and is added to exactly one of the
\* attacker's hits and misses, the attacker is otherwise as before, so is
\* every other player, the roster, the chat log and the registry's other
\* rooms, the turn goes to the opponent unless the outcome declares a
\* winner, and the outcome is broadcast as attackResult.
FullyApplied(s, code, t) ==
    LET room == rooms[code]
        after == AttackRooms(rooms, s, code, t)
        pi == getPlayer(room, s)
        coord == <<t[1], t[2], t[3]>>
        payload == AttackPayload(room, s, t)
        events == AttackEvents(rooms, s, code, t)
    IN  /\ DOMAIN after = DOMAIN rooms
        /\ \A c \in DOMAIN rooms : c # code => after[c] = rooms[c]
        /\ coord \notin Shots(room.players[pi])
        /\ \/ /\ after[code].players[pi].hits = room.players[pi].hits \cup {coord}
              /\ after[code].players[pi].misses = room.players[pi].misses
           \/ /\ after[code].players[pi].misses = room.players[pi].misses \cup {coord}
              /\ after[code].players[pi].hits = room.players[pi].hits
        /\ [after[code].players[pi] EXCEPT !.hits = {}, !.misses = {}]
              = [room.players[pi] EXCEPT !.hits = {}, !.misses = {}]
        /\ Len(after[code].players) = Len(room.players)
        /\ \A i \in 1 .. Len(room.players) :
              i # pi => after[code].players[i] = room.players[i]
        /\ after[code].chat = room.chat
        /\ after[code].code = room.code
        /\ after[code].turn = IF payload.winner = null
                              THEN OpponentOf(s, code).id ELSE room.turn
        /\ OfType(events, "attackResult") = {1}
        /\ events[1] = Event("attackResult", code, payload)

\* C19: every attack request is either rejected, the registry unchanged
\* and nothing broadcast, or fully applied; the handler never ends a
\* request in any other way, whatever target it is sent.
C19_AttackRejectedOrApplied ==
    \A s \in Sockets, code \in CodeInputs :
        /\ \A t \in Targets :
             \/ /\ AttackError(rooms, s, code, t) # "none"
                /\ AttackRooms(rooms, s, code, t) = rooms
                /\ AttackEvents(rooms, s, code, t) = <<>>
             \/ /\ AttackError(rooms, s, code, t) = "none"
                /\ FullyApplied(s, code, t)
        /\ \A raw \in MalformedTargets : ~ AttackThrows(rooms, s, code, raw)

\* The draws one pass of the generator's loop can make for a ship of this
\* length.
AutoDraws(length) ==
    {d \in {<<axis, [x |-> x, y |-> y, z |-> z]>> :
                axis \in axes, x \in RandomBelow(BOARD_SIZE),
                y \in RandomBelow(BOARD_SIZE), z \in RandomBelow(BOARD_SIZE)} :
        d[2][d[1]] \in RandomBelow(axisSpan(length))}

\* C21: every fleet generateAutomaticPlacements returns is one entry per
\* catalog ship of the catalog length, integer cells in bounds, straight and
\* consecutive along one axis, without overlap, and placeShips accepts it;
\* and the generator terminates: a ship is tried at most AUTO_ATTEMPTS
\* times, and every pass of the loop either ends the call, moves on to the
\* next ship or uses up one of the attempts left.
C21_AutoFleetAccepted ==
    /\ auto.status = "done" =>
         /\ WellPlaced(AutoFleet(auto.placements), IsIntegerCoord)
         /\ Accepts(AutoFleet(auto.placements))
         /\ Stores(AutoFleet(auto.placements))
    /\ auto.attempts <= AUTO_ATTEMPTS
    /\ auto.status = "placing" =>
         /\ auto.ship \in 1 .. Len(SHIPS)
         /\ auto.attempts < AUTO_ATTEMPTS
         /\ \A d \in AutoDraws(SHIPS[auto.ship].length) :
              LET g == AutoAfterAttempt(auto, d[1], d[2])
              IN  \/ g.status \in {"done", "null"}
                  \/ g.ship = auto.ship + 1
                  \/ g.ship = auto.ship /\ g.attempts = auto.attempts + 1

\* The generator has returned a fleet whose last ship took every attempt
\* it had: the earlier draws for it ran into the first ship.
C21_Witness ==
    /\ auto.status = "done"
    /\ auto.attempts = AUTO_ATTEMPTS
    /\ Len(auto.placements) = Len(SHIPS)

\* The boards and ship lists of the players seated in the room, by seat.
Fleets(room) ==
    [i \in 1 .. Len(room.players) |->
        [board |-> room.players[i].board, ships |-> room.players[i].ships]]

\* C22: once the turn of a room is set and a shot has been resolved, no
\* request changes the board or the ship list of a seated player: neither
\* an attack nor a placeShips of anyone, each of which leaves every seat's
\* board and ships as they were.
C22_PlacementWriteOnce ==
    \A code \in DOMAIN rooms :
        (/\ rooms[code].turn # null
         /\ Len(rooms[code].players) = 2
         /\ \E i \in 1 .. 2 : Shots(rooms[code].players[i]) # {}) =>
            \A s \in Sockets :
                /\ \A t \in Targets :
                     Fleets(AttackRooms(rooms, s, code, t)[code])
                        = Fleets(rooms[code])
                /\ \A sub \in GameFleets :
                     Fleets(PlaceShipsRooms(rooms, s, code, sub)[code])
                        = Fleets(rooms[code])

\* C23: while the turn of a room is absent, no createGame, joinGame,
\* setUsername, chatMessage, attack or disconnect sets it, and a placeShips
\* sets it exactly when it is accepted and leaves the room with two seated
\* players that are both ready; a room is created with the turn absent.
C23_TurnAbsentUntilStart ==
    \A code \in DOMAIN rooms :
      rooms[code].turn = null =>
        \A s \in Sockets :
          /\ CreateGameRooms(rooms, s, FormatCode(0))[code].turn = null
          /\ CreateGameRooms(rooms, s, FormatCode(0))[FormatCode(0)].turn = null
          /\ \A c \in CodeInputs :
               /\ JoinGameRooms(rooms, s, c)[code].turn = null
               /\ \A u \in UsernameInputs :
                    SetUsernameRooms(rooms, s, c, u)[code].turn = null
               /\ \A m \in MessageInputs :
                    ChatMessageRooms(rooms, s, c, m)[code].turn = null
               /\ \A t \in Targets :
                    AttackRooms(rooms, s, c, t)[code].turn = null
               /\ \A sub \in RejectedFleets \cup GameFleets :
                    LET after == PlaceShipsRooms(rooms, s, c, sub)[code]
                    IN  after.turn # null <=>
                          /\ PlaceShipsError(rooms, s, c, sub) = "none"
                          /\ c = code
                          /\ Len(after.players) = 2
                          /\ \A i \in 1 .. 2 : after.players[i].ready
          /\ LET after == Disconnecting(rooms, socketRooms, s).rooms
             IN  code \in DOMAIN after => after[code].turn = null

\* Two players are seated, one has placed a fleet, the turn is absent, and
\* the placement of the other would set it.
C23_Witness ==
    \E code \in DOMAIN rooms :
        /\ rooms[code].turn = null
        /\ Len(rooms[code].players) = 2
        /\ rooms[code].players[1].id # rooms[code].players[2].id
        /\ \E i \in 1 .. 2 : rooms[code].players[i].ready
        /\ \E s \in Sockets, sub \in GameFleets :
              PlaceShipsRooms(rooms, s, code, sub)[code].turn # null

\* C24: when a socket that does not hold the turn of a room disconnects and
\* the room survives, the turn of the room is what it was: absent stays
\* absent and the turn of a remaining player stays theirs.
C24_OtherLeavesTurnStays ==
    \A code \in DOMAIN rooms : \A s \in connected :
        LET after == Disconnecting(rooms, socketRooms, s).rooms
        IN  (rooms[code].turn # s /\ code \in DOMAIN after) =>
                after[code].turn = rooms[code].turn

\* The first seat held the turn of a match in which no shot was fired, the
\* second seat has left, and the first seat still holds the turn.
C24_Witness ==
    \E code \in DOMAIN rooms :
        /\ "s2" \notin connected
        /\ "s1" \in connected
        /\ Len(rooms[code].players) = 1
        /\ rooms[code].players[1].id = "s1"
        /\ rooms[code].turn = "s1"
        /\ hist[code].lastAttacker = null
        /\ rooms[code].chat[Len(rooms[code].chat)] = Farewell("A commander")

\* The key names a cell of the board: three whole numbers in [0, BOARD_SIZE).
OnBoard(key) ==
    /\ Len(key) = 3
    /\ \A k \in 1 .. 3 : key[k] \in Axis

\* C25: the hits and the misses of every player are disjoint, each of their
\* members is a coordinate of the board, together they are no more than the
\* board has cells, and every accepted attack adds exactly one member, so
\* that their number is the number of attacks accepted from the player.
C25_ShotsOnBoard ==
    \A code \in DOMAIN rooms :
        /\ \A i \in 1 .. Len(rooms[code].players) :
             LET player == rooms[code].players[i]
             IN  /\ player.hits \cap player.misses = {}
                 /\ \A key \in player.hits \cup player.misses : OnBoard(key)
                 /\ Cardinality(player.hits \cup player.misses)
                       <= BOARD_SIZE * BOARD_SIZE * BOARD_SIZE
        /\ \A s \in Sockets, t \in Targets :
             Accepted(s, code, t) =>
               Cardinality(Shots(AttackerAfter(s, code, t)))
                  = Cardinality(Shots(rooms[code].players[getPlayer(rooms[code], s)])) + 1

\* The stored board and ship list of a player agree and are canonical: a
\* ready player has one ship per catalog name, of the catalog length, of
\* distinct cells of the board, and the board holds a ship's name exactly
\* on that ship's cells and is empty elsewhere; a player that is not ready
\* has an empty board and no ships.
Canonical(player) ==
    IF player.ready
    THEN /\ Len(player.ships) = Len(SHIPS)
         /\ \A k \in 1 .. Len(SHIPS) :
              \E i \in 1 .. Len(player.ships) :
                 /\ player.ships[i].name = SHIPS[k].name
                 /\ \A j \in 1 .. Len(player.ships) :
                       player.ships[j].name = SHIPS[k].name => j = i
                 /\ Len(player.ships[i].cells) = SHIPS[k].length
                 /\ Cardinality(Range(player.ships[i].cells)) = SHIPS[k].length
                 /\ \A c \in Range(player.ships[i].cells) : OnBoard(c)
                 /\ \A c \in Cells :
                       player.board[c] = SHIPS[k].name
                          <=> c \in Range(player.ships[i].cells)
         /\ \A c \in Cells :
              player.board[c] = null <=> c \notin AllCells(player.ships)
    ELSE /\ \A c \in Cells : player.board[c] = null
         /\ player.ships = <<>>

\* C26: in every reachable state every seated player's stored board and
\* ships are canonical, and so are those of the player after any placeShips,
\* whatever the submission.
C26_StoredFleetCanonical ==
    \A code \in DOMAIN rooms :
        /\ \A i \in 1 .. Len(rooms[code].players) :
              Canonical(rooms[code].players[i])
        /\ \A s \in Sockets, sub \in Submissions :
              LET after == PlaceShipsRooms(rooms, s, code, sub)[code]
              IN  \A i \in 1 .. Len(after.players) : Canonical(after.players[i])

\* The player has a fleet stored, and a submission whose coordinates are
\* not all integers would be accepted in its place.
C26_Witness ==
    /\ rooms[ValidateCode].players[1].ready
    /\ Cardinality({c \in Cells : rooms[ValidateCode].players[1].board[c] # null})
          = Cardinality(AllCells(rooms[ValidateCode].players[1].ships))
    /\ \E sub \in Submissions :
          /\ Accepts(sub)
          /\ ~ CoordsOk(sub, IsIntegerCoord)
          /\ PlaceShipsRooms(rooms, ValidateSocket, ValidateCode, sub)
                [ValidateCode].players[1].ships
                # rooms[ValidateCode].players[1].ships

\* The errors about the names of a submission.
NameErrors ==
    {"Unexpected ship provided.", "Duplicate ship entries are not allowed."}

\* Submissions of two well-formed entries with two things wrong: one entry
\* has a name outside the catalog or a name for the second time, and the
\* Destroyer entry is too short, out of bounds, bent, gapped or overlapped;
\* in both orders.
MixedFleets ==
    LET Wrong == {<<Cell(0, 0, 0)>>,
                  <<Cell(0, 0, 0), Cell(0, 0, BOARD_SIZE)>>,
                  <<Cell(0, 0, 0), Cell(1, 1, 0)>>,
                  <<Cell(0, 0, 0), Cell(2, 0, 0)>>}
        Named == {Ship("Cruiser", <<Cell(0, 1, 0)>>),
                  Ship("Destroyer", <<Cell(0, 1, 0), Cell(1, 1, 0)>>),
                  Ship("Destroyer", <<Cell(0, 0, 0), Cell(1, 0, 0)>>)}
    IN  {Fleet(<<Ship("Destroyer", cells), other>>) :
            cells \in Wrong, other \in Named}
        \cup {Fleet(<<other, Ship("Destroyer", cells)>>) :
                 cells \in Wrong, other \in Named}

\* C27: a submission of as many well-formed ships as the catalog has, one
\* of which has an unexpected or a duplicate name, is rejected with the
\* name error, whatever else is wrong with any of its entries; an error
\* about lengths, coordinates, lines or overlap is replied only when the
\* names are exactly those of the catalog.
C27_NamesBeforeGeometry ==
    \A sub \in Submissions \cup MixedFleets :
        (IsFleetList(sub) /\ Len(sub.ships) = Len(SHIPS)) =>
            /\ ~ OnePerName(sub) =>
                 PlaceShipsError(rooms, ValidateSocket, ValidateCode, sub)
                    \in NameErrors
            /\ PlaceShipsError(rooms, ValidateSocket, ValidateCode, sub)
                  \notin NameErrors \cup {"none"} => OnePerName(sub)

\* The preconditions of an attack of s at t in the room of this code, in
\* the order of the claim: k = 1 the room exists, 2 s holds the turn, 3 the
\* second seat is taken, 4 the target is on the board, 5 s has not fired at
\* it.  Violated(k, ...) says that the k-th does not hold.
Violated(k, s, code, t) ==
    CASE k = 1 -> code \notin DOMAIN rooms
      [] k = 2 -> code \in DOMAIN rooms /\ rooms[code].turn # s
      [] k = 3 -> code \in DOMAIN rooms /\ Len(rooms[code].players) < 2
      [] k = 4 -> \E a \in 1 .. 3 : t[a] \notin Axis
      [] k = 5 -> /\ code \in DOMAIN rooms
                  /\ \E i \in 1 .. Len(rooms[code].players) :
                        /\ rooms[code].players[i].id = s
                        /\ <<t[1], t[2], t[3]>> \in Shots(rooms[code].players[i])

PrecedenceErrors ==
    <<"Room not found.", "Not your turn.", "Opponent not found.",
      "Invalid target.", "Coordinate already targeted.">>

\* C28: the error of an attack is the one of the first violated
\* precondition in the order room, turn, opponent, bounds, repeat, however
\* many are violated at once, and the attack is accepted when none is; the
\* turn holder alone in a room gets 'Opponent not found.'.
C28_AttackErrorPrecedence ==
    \A s \in Sockets, code \in CodeInputs, t \in Targets :
        /\ \A k \in 1 .. 5 :
             (Violated(k, s, code, t)
                /\ \A j \in 1 .. (k - 1) : ~ Violated(j, s, code, t))
               => AttackError(rooms, s, code, t) = PrecedenceErrors[k]
        /\ (\A k \in 1 .. 5 : ~ Violated(k, s, code, t))
               => AttackError(rooms, s, code, t) = "none"

\* The turn holder is alone in the room after shots were fired: an attack
\* of it outside the board, or at a coordinate it fired at, violates two
\* preconditions and is answered 'Opponent not found.'.
C28_Witness ==
    \E code \in DOMAIN rooms :
        /\ Len(rooms[code].players) = 1
        /\ rooms[code].turn = rooms[code].players[1].id
        /\ Shots(rooms[code].players[1]) # {}
        /\ \E t \in Targets :
              /\ Violated(3, rooms[code].turn, code, t)
              /\ Violated(4, rooms[code].turn, code, t)
              /\ AttackError(rooms, rooms[code].turn, code, t)
                    = "Opponent not found."
        /\ \E t \in Targets :
              /\ Violated(3, rooms[code].turn, code, t)
              /\ Violated(5, rooms[code].turn, code, t)

\* The log new is the log old with the entry appended, cut to its most
\* recent MAX_CHAT_MESSAGES entries in their order.
AppendedAndCut(old, new, entry) ==
    LET full == Append(old, entry)
    IN  /\ Len(new) = IF Len(full) <= MAX_CHAT_MESSAGES THEN Len(full)
                      ELSE MAX_CHAT_MESSAGES
        /\ \A i \in 1 .. Len(new) : new[i] = full[Len(full) - Len(new) + i]

\* C29: the chat log of every room has at most MAX_CHAT_MESSAGES entries,
\* and every operation that writes to it, joinGame, setUsername, chatMessage
\* and the disconnect of a player, leaves the earlier log with its entry,
\* user or system, appended and the oldest entries dropped beyond the cap.
C29_ChatLogCapped ==
    \A code \in DOMAIN rooms :
        LET old == rooms[code].chat
        IN  /\ Len(old) <= MAX_CHAT_MESSAGES
            /\ \A s \in Sockets :
                 /\ JoinGameError(rooms, s, code) = "none" =>
                      AppendedAndCut(old, JoinGameRooms(rooms, s, code)[code].chat,
                                     JoinedEntry)
                 /\ \A m \in MessageInputs :
                      ChatMessageError(rooms, s, code, m) = "none" =>
                        AppendedAndCut(old,
                            ChatMessageRooms(rooms, s, code, m)[code].chat,
                            [id |-> s,
                             username |->
                                IF rooms[code].players[getPlayer(rooms[code], s)]
                                      .username = null
                                THEN "Player"
                                ELSE rooms[code].players[getPlayer(rooms[code], s)]
                                        .username,
                             message |-> <<m.normalized>>, kind |-> "user"])
                 /\ \A u \in UsernameInputs :
                      LET new == SetUsernameRooms(rooms, s, code, u)[code].chat
                      IN  \/ new = old
                          \/ /\ Len(new) >= 1
                             /\ new[Len(new)].kind = "system"
                             /\ AppendedAndCut(old, new, new[Len(new)])
                 /\ LET after == Disconnecting(rooms, socketRooms, s).rooms
                    IN  (s \in connected /\ code \in DOMAIN after
                           /\ s \in Seated(rooms[code])) =>
                          /\ Len(after[code].chat) >= 1
                          /\ after[code].chat[Len(after[code].chat)].kind = "system"
                          /\ AppendedAndCut(old, after[code].chat,
                                 after[code].chat[Len(after[code].chat)])

\* The log of a room is full, its first entry, 'Room created', has been
\* dropped, and it holds a user entry next to a system entry.
C29_Witness ==
    \E code \in DOMAIN rooms :
        /\ Len(rooms[code].chat) = MAX_CHAT_MESSAGES
        /\ \A i \in 1 .. Len(rooms[code].chat) :
              rooms[code].chat[i] # RoomCreatedEntry
        /\ \E i \in 1 .. Len(rooms[code].chat) : rooms[code].chat[i].kind = "user"
        /\ \E i \in 1 .. Len(rooms[code].chat) : rooms[code].chat[i].kind = "system"

\* C30: from the createGame of a room to its deletion at most one joinGame
\* request for it succeeds.
C30_OneJoinPerRoom ==
    \A code \in DOMAIN rooms : hist[code].joins <= 1

\* The player record of a caller that has just taken a seat.
FreshPlayer(player, s) ==
    /\ player.id = s
    /\ ~ player.ready
    /\ player.username = null
    /\ \A c \in Cells : player.board[c] = null
    /\ player.ships = <<>>
    /\ player.hits = {}
    /\ player.misses = {}

\* C31 as stated: right after createGame the new room has exactly one
\* player, the caller, not ready, with empty board, ships, hits and misses,
\* its turn is absent and its chat log is empty.
C31_CreatedRoomLogEmpty ==
    \A s \in Sockets, code \in CodeInputs \ DOMAIN rooms :
        LET room == CreateGameRooms(rooms, s, code)[code]
        IN  /\ Len(room.players) = 1
            /\ FreshPlayer(room.players[1], s)
            /\ room.turn = null
            /\ room.chat = <<>>

\* C31: right after createGame the new room is filed under its code, has
\* exactly one player, the caller, not ready, with empty board, ships, hits
\* and misses, its turn is absent, and its chat log holds one entry, the
\* system entry 'Room created. Share the code to invite an opponent.'; the
\* chat of the reply to the caller is empty.
C31_CreatedRoom ==
    \A s \in Sockets, code \in CodeInputs \ DOMAIN rooms :
        LET room == CreateGameRooms(rooms, s, code)[code]
        IN  /\ room.code = code
            /\ Len(room.players) = 1
            /\ FreshPlayer(room.players[1], s)
            /\ room.turn = null
            /\ room.chat =
                 <<[id |-> "system", username |-> "System", kind |-> "system",
                    message |->
                      <<"Room created. Share the code to invite an opponent.">>]>>
            /\ CreateGameReply(s, code).chat = <<>>

\* A room has just been created: its creator is its only player and no
\* other socket has entered a room or left.
C31_Witness ==
    \E code \in DOMAIN rooms :
        /\ connected = Sockets
        /\ socketRooms = [s \in Sockets |-> IF s = "s1" THEN <<code>> ELSE <<>>]
        /\ Len(rooms[code].players) = 1
        /\ FreshPlayer(rooms[code].players[1], "s1")
        /\ Len(rooms[code].chat) = 1
        /\ hist[code].joins = 0

\* The codes requests carry while two rooms are live: theirs and a free one.
FrameCodes == RegistryCodes \cup {FormatCode(7)}

\* Every room of before other than the one filed under code is in after,
\* unchanged.
OthersKept(before, after, code) ==
    \A other \in DOMAIN before \ {code} :
        other \in DOMAIN after /\ after[other] = before[other]

Snapshots(events, code) ==
    {k \in OfType(events, "roomState") : events[k].code = code}

\* events holds a roomState snapshot for the room code, and the last one
\* shows the roster of room in order, each player with id, username and
\* ready flag, and the turn of room.
LastSnapshotShows(events, code, room) ==
    /\ Snapshots(events, code) # {}
    /\ LET last == CHOOSE k \in Snapshots(events, code) :
                       \A j \in Snapshots(events, code) : j <= k
           data == events[last].data
       IN  /\ Len(data.players) = Len(room.players)
           /\ \A i \in 1 .. Len(room.players) :
                 /\ data.players[i].id = room.players[i].id
                 /\ data.players[i].username = room.players[i].username
                 /\ data.players[i].ready = room.players[i].ready
           /\ data.turn = room.turn

\* C33: after createGame, joinGame, setUsername, an accepted placeShips, an
\* accepted attack and a disconnect that leaves the room alive, the last
\* roomState snapshot the operation broadcast to the room shows the room as
\* it then is: the roster in order with id, username and ready flag of each
\* player, and the turn.
C33_SnapshotShowsRoom ==
    \A s \in Sockets :
        /\ \A code \in CodeInputs \ DOMAIN rooms :
              LastSnapshotShows(CreateGameEvents(rooms, s, code), code,
                                CreateGameRooms(rooms, s, code)[code])
        /\ \A code \in DOMAIN rooms :
              /\ JoinGameError(rooms, s, code) = "none" =>
                    LastSnapshotShows(JoinGameEvents(rooms, s, code), code,
                                      JoinGameRooms(rooms, s, code)[code])
              /\ getPlayer(rooms[code], s) # 0 =>
                    \A u \in UsernameInputs :
                        LastSnapshotShows(
                            SetUsernameEvents(rooms, s, code, u), code,
                            SetUsernameRooms(rooms, s, code, u)[code])
              /\ \A sub \in GameFleets :
                    PlaceShipsError(rooms, s, code, sub) = "none" =>
                        LastSnapshotShows(
                            PlaceShipsEvents(rooms, s, code, sub), code,
                            PlaceShipsRooms(rooms, s, code, sub)[code])
              /\ \A t \in Targets :
                    AttackError(rooms, s, code, t) = "none" =>
                        LastSnapshotShows(AttackEvents(rooms, s, code, t), code,
                                          AttackRooms(rooms, s, code, t)[code])
              /\ (code \in Range(socketRooms[s])
                    /\ code \in DOMAIN Disconnecting(rooms, socketRooms, s).rooms)
                  => LastSnapshotShows(
                         Disconnecting(rooms, socketRooms, s).events, code,
                         Disconnecting(rooms, socketRooms, s).rooms[code])

\* The second of two players is about to complete the placement: the
\* placeShips that starts the match broadcasts two snapshots, and only the
\* last of them carries the turn.
C33_Witness ==
    \E code \in DOMAIN rooms, s \in Sockets :
        /\ PlaceShipsError(rooms, s, code, FleetA) = "none"
        /\ rooms[code].turn = null
        /\ Cardinality(Snapshots(PlaceShipsEvents(rooms, s, code, FleetA), code)) = 2
        /\ PlaceShipsRooms(rooms, s, code, FleetA)[code].turn # null

\* Whatever the client of every seat of room showed before, once events
\* are delivered its myTurn flag can equal the server's test turn = id.
CanAgree(events, room) ==
    \A i \in 1 .. Len(room.players) :
        \E cs \in ClientStates :
            DeliverAll(cs, room.players[i].id, events).myTurn
                <=> (room.turn = room.players[i].id)

\* C34: once the broadcasts of an accepted placeShips, an accepted attack or
\* a disconnect have been delivered in order, the myTurn flag of the client
\* of each seat of the room is true exactly if the room's turn is that
\* client's identity.
C34_ClientsAgreeOnTurn ==
    \A s \in Sockets, code \in DOMAIN rooms :
        /\ \A sub \in GameFleets :
              PlaceShipsError(rooms, s, code, sub) = "none" =>
                  CanAgree(PlaceShipsEvents(rooms, s, code, sub),
                           PlaceShipsRooms(rooms, s, code, sub)[code])
        /\ \A t \in Targets :
              AttackError(rooms, s, code, t) = "none" =>
                  CanAgree(AttackEvents(rooms, s, code, t),
                           AttackRooms(rooms, s, code, t)[code])
        /\ (code \in Range(socketRooms[s])
              /\ code \in DOMAIN Disconnecting(rooms, socketRooms, s).rooms)
            => CanAgree(Disconnecting(rooms, socketRooms, s).events,
                        Disconnecting(rooms, socketRooms, s).rooms[code])

\* C35: every accepted attack whose outcome names a winner has result sunk
\* and names the ship: a win is declared by the shot that completes the
\* last remaining ship of the opponent, never by a miss or a plain hit.
C35_WinIsASinkingShot ==
    \A s \in Sockets, code \in DOMAIN rooms, t \in Targets :
        (AttackError(rooms, s, code, t) = "none"
           /\ AttackPayload(rooms[code], s, t).winner # null) =>
            /\ AttackPayload(rooms[code], s, t).result = "sunk"
            /\ AttackPayload(rooms[code], s, t).shipName # null

\* C36: no room seats an identity twice: the identities of the players of
\* every room are pairwise distinct, and the opponent of a seated player is
\* another identity.
C36_SeatsDistinct ==
    \A code \in DOMAIN rooms :
        LET room == rooms[code]
        IN  /\ \A i, j \in 1 .. Len(room.players) :
                  i # j => room.players[i].id # room.players[j].id
            /\ \A s \in Seated(room) :
                  getOpponent(room, s) # 0 =>
                      room.players[getOpponent(room, s)].id # s

\* C37: in every room with two seated players the shot history of each
\* player describes the board of the player in the other seat: every hit
\* is a cell a ship occupies there, every miss a cell that is empty there.
C37_ShotsDescribeOpponentBoard ==
    \A code \in DOMAIN rooms :
        Len(rooms[code].players) = 2 =>
            \A i \in 1 .. 2 :
                LET player == rooms[code].players[i]
                    opponent == rooms[code].players[3 - i]
                IN  /\ \A c \in player.hits : opponent.board[c] # null
                    /\ \A c \in player.misses : opponent.board[c] = null

\* A match in progress: two seated ready players, a turn holder and no
\* winner declared so far.
InProgress(code) ==
    /\ Len(rooms[code].players) = 2
    /\ \A i \in 1 .. 2 : rooms[code].players[i].ready
    /\ rooms[code].turn # null
    /\ hist[code].winner = null

\* The player in seat i can still be declared winner by attacks: no cell of
\* a ship of the other seat is among its misses.  (attack turns a cell into
\* a hit only if it is in neither set, never moves a key from misses to
\* hits, and declares the winner only when every ship cell is a hit.)
CanStillWin(room, i) ==
    \A c \in AllCells(room.players[3 - i].ships) : c \notin room.players[i].misses

\* C38: in every state where a match is in progress the turn holder has a
\* coordinate of the board at which its attack is accepted, and a winner can
\* still be declared by attacks alone, which takes a player none of whose
\* misses lies on a ship of the opponent.
C38_MatchCanEnd ==
    \A code \in DOMAIN rooms :
        InProgress(code) =>
            /\ \E c \in Cells : AttackError(rooms, rooms[code].turn, code, c) = "none"
            /\ \E i \in 1 .. 2 : CanStillWin(rooms[code], i)

\* The live rooms s is seated in.
RoomsOf(s) == {code \in DOMAIN rooms : s \in Seated(rooms[code])}

\* C39: after the disconnect of an identity is processed the identity is
\* seated in no live room, and for every room it was seated in, the ones
\* its departure deleted included, a playerLeft notice naming it has been
\* broadcast to that room.
C39_LeaverGoneEverywhere ==
    \A s \in Sockets :
        LET after == Disconnecting(rooms, socketRooms, s)
        IN  /\ \A code \in DOMAIN after.rooms : s \notin Seated(after.rooms[code])
            /\ \A code \in RoomsOf(s) :
                  \E k \in OfType(after.events, "playerLeft") :
                      /\ after.events[k].code = code
                      /\ after.events[k].data.leaver = s

\* An identity about to disconnect is seated in two rooms: alone in one,
\* which its departure deletes, and with another identity in the other,
\* which survives.
C39_Witness ==
    \E s \in connected :
        LET after == Disconnecting(rooms, socketRooms, s)
        IN  /\ Cardinality(RoomsOf(s)) = 2
            /\ \E code \in RoomsOf(s) : code \notin DOMAIN after.rooms
            /\ \E code \in RoomsOf(s) : code \in DOMAIN after.rooms

====
